---- MODULE Spec2Model ----
(***************************************************************************)
(* Model of the request dispatch engine of tachyon_api (class Tachyon in   *)
(* tachyon_api/app.py): the dependency resolver (_resolve_dependency,      *)
(* _resolve_callable_dependency), the route wrapper built by _add_route    *)
(* and its exception-to-response mapping.                                  *)
(*                                                                         *)
(* One worker runs many requests on one event loop: a request runs until   *)
(* it suspends at an await or produces its response, so every action below *)
(* is one such uninterrupted stretch of the wrapper.                       *)
(***************************************************************************)
EXTENDS Integers, Sequences, FiniteSets, TLC

(***************************************************************************)
(* Bounds.                                                                 *)
(***************************************************************************)
\* requests that may be in flight at the same time
MaxInFlight == 2
\* requests served during one run of the application
MaxRequests == 2
\* entries the exception handler table may hold
MaxHandlers == 3

\* characters a raw parameter value may have
MaxRawLen == 2
\* tasks an endpoint may queue
MaxTasks == 2
\* routes a router or the application may be given
MaxRoutes == 2

Slots == 1..MaxInFlight

(***************************************************************************)
(* Values handed to endpoints.  Every object has the same shape:           *)
(*   k    "inst" an instance built by the resolver from a class,           *)
(*        "prod" an object returned by calling an override,                *)
(*        "val"  an override that is a plain value, returned as it is,     *)
(*        "res"  the result of calling a callable dependency,              *)
(*        "raise" an exception travelling up the call stack;               *)
(*   cls  the class, override or callable it comes from;                   *)
(*   id   with req, the identity of the object: instances are numbered by  *)
(*        the application, the objects overrides return are numbered      *)
(*        within the request that called the override;                     *)
(*   req  the request in which the object was computed (0 for instances   *)
(*        and plain values, which belong to the application);              *)
(*   args the constructor arguments, or the nested dependencies.           *)
(***************************************************************************)
Obj(k, cls, id, req, args) == [k |-> k, cls |-> cls, id |-> id, req |-> req, args |-> args]

NoVal == Obj("none", "", 0, 0, <<>>)

EmptyMap == [x \in {} |-> NoVal]

Put(f, key, v) == [x \in (DOMAIN f) \cup {key} |-> IF x = key THEN v ELSE f[x]]

(***************************************************************************)
(* The classes and callables of the application under test.                *)
(***************************************************************************)
\* classes decorated with @injectable
registry == {"Repository", "Service", "Facade"}

\* classes resolvable by type: the injectables, a plain data class, and a
\* class that is not injectable and whose constructor needs an argument
Classes == registry \cup {"Plain", "Client"}

\* cls() does not raise TypeError
ZeroArg(cls) == cls # "Client"

\* the constructor signatures of the injectable classes of the application
\* under test: the annotations of their parameters
DeclaredParams ==
    [c \in registry |->
        CASE c = "Service" -> <<"Repository">>
          [] c = "Facade"  -> <<"Service", "Repository">>
          [] OTHER         -> <<>>]

\* other ways to declare the three classes, none of them cyclic: a class
\* takes classes declared before it
Declarations ==
    { [Repository |-> <<>>, Service |-> s, Facade |-> f] :
        s \in {<<>>, <<"Repository">>, <<"Repository", "Repository">>},
        f \in UNION { [1..n -> {"Repository", "Service"}] : n \in 0..2 } }

\* callable dependencies: a counted sync function, an async function with
\* a nested Depends(counted), and a guard that raises the request's fault
Callables == {"counted", "get_async", "guard"}

IsAsync(dep) == dep = "get_async"

\* one parameter that is a dependency: Depends() resolves the annotated
\* class, Depends(f) calls f
ByType(cls) == [src |-> "type", key |-> cls]

ByCall(dep) == [src |-> "call", key |-> dep]

\* parameters of a callable that carry a Depends default
NestedDepends(dep) ==
    IF dep = "get_async" THEN <<ByCall("counted"), ByType("Repository")>> ELSE <<>>

\* keys a test replaces, and what it replaces them with
OverrideKeys == {"Repository", "counted"}

Overrides == { [kind |-> "func",  name |-> "MockA"],
               [kind |-> "class", name |-> "MockB"] }

\* a class is replaced by a mock class or by a function returning a mock,
\* a callable by a function
OverridesOf(key) ==
    IF key \in Classes THEN Overrides ELSE {o \in Overrides : o.kind = "func"}

NoOverride == [kind |-> "none", name |-> ""]

(***************************************************************************)
(* Exceptions.  An exception carries its class and, for HTTP errors, the   *)
(* status code, the detail message and the headers; for any other         *)
(* exception detail is its message, str(exc).                              *)
(***************************************************************************)
ExcTypes == {"Exception", "HTTPException", "KYCException", "ValueError", "UnicodeError"}

\* direct base class
Base(t) == CASE t = "HTTPException" -> "Exception"
             [] t = "KYCException"  -> "HTTPException"
             [] t = "ValueError"    -> "Exception"
             [] t = "UnicodeError"  -> "ValueError"
             [] t = "DecodeError"     -> "Exception"
             [] t = "ValidationError" -> "DecodeError"
             [] t = "TypeError"       -> "Exception"
             [] t = "Exception"       -> "BaseException"
             [] OTHER               -> "BaseException"

RECURSIVE IsSubclass(_, _)
\* issubclass(t, u), which is what isinstance(exc, u) tests on type(exc) = t
IsSubclass(t, u) == IF t = u THEN TRUE
                    ELSE IF t = "BaseException" THEN FALSE
                    ELSE IsSubclass(Base(t), u)

NoExc == [type |-> "none", status_code |-> 0, detail |-> "", headers |-> <<>>]

Exc(type, message) == [type |-> type, status_code |-> 0, detail |-> message, headers |-> <<>>]

\* the exceptions endpoints and dependencies of the application raise
Raisable ==
    { [type |-> t, status_code |-> s, detail |-> "Authentication required", headers |-> h] :
        t \in {"HTTPException", "KYCException"}, s \in {401, 404},
        h \in {<<>>, <<"WWW-Authenticate">>} }
    \cup { [type |-> t, status_code |-> 0, detail |-> d, headers |-> <<>>] :
        t \in {"ValueError", "UnicodeError", "Exception"}, d \in {"boom", "secret"} }

\* what a request makes the application raise, and where
NoFault == [stage |-> "none", exc |-> NoExc]

Faults == { [stage |-> g, exc |-> e] : g \in {"dependency", "endpoint"}, e \in Raisable }

(***************************************************************************)
(* State.                                                                  *)
(***************************************************************************)
VARIABLES
    dependency_overrides,  \* Tachyon.dependency_overrides: key -> override
    instances_cache,       \* Tachyon._instances_cache: class -> instance
    exception_handlers,    \* Tachyon._exception_handlers: its keys, in insertion order
    requests,              \* one wrapper invocation per slot: locals and position;
                           \* history: its resolutions, the calls of each callable,
                           \* whether the overrides changed meanwhile, the handler
                           \* table its response was chosen from
    dependency_cache,      \* the dependency_cache dict of each wrapper invocation
    ctr,                   \* identity of the next object created
    nreq,                  \* requests received so far
    built,                 \* history: constructions of each class by the resolver
    served,                \* history: instances handed out for each injectable
                           \* class while it had no override
    sub_router,            \* a Router: its prefix, its tags and Router.routes
    app_routes,            \* Tachyon._router.routes with the metadata that
                           \* Tachyon.routes keeps for each of them
    mounted,               \* history: Router.routes when include_router ran
    classified,            \* history: the last endpoint parameter the wrapper's
                           \* loop came to, and what the loop did with it
    installed,             \* TACHYON_ENGINE_AVAILABLE, once the adapters are imported
    environ,               \* os.environ.get('TACHYON_ENGINE')
    selection,             \* an EngineConfig, with what get_adapter() and
                           \* is_tachyon_engine() gave for it
    ctor_params            \* the constructor parameters of each injectable class

vars == <<dependency_overrides, instances_cache, exception_handlers, requests,
          dependency_cache, ctr, nreq, built, served, sub_router, app_routes, mounted,
          classified, installed, environ, selection, ctor_params>>

\* the state of the choice of the ASGI engine
settings == <<installed, environ, selection>>

\* the state of the route tables
tables == <<sub_router, app_routes, mounted>>

\* the state of the dispatch of requests
serving == <<dependency_overrides, instances_cache, exception_handlers, requests,
            dependency_cache, ctr, nreq, built, served>>

\* inspect.signature(cls).parameters, without self
CtorParams(cls) == IF cls \in registry THEN ctor_params[cls] ELSE <<>>

(***************************************************************************)
(* Tachyon._resolve_dependency.  The resolver works on a record m of the   *)
(* state it reads and writes; the overrides are those of the current       *)
(* state, since a resolution by type never suspends.                       *)
(***************************************************************************)
\* variant: an override is ignored once the class has a cached singleton
HasOverrideUnlessCached(overrides, key) ==
    key \in DOMAIN overrides /\ key \notin DOMAIN instances_cache

\* `cls in self.dependency_overrides`
HasOverride(overrides, key) == key \in DOMAIN overrides

\* the three branches on the override: a function or a class is called,
\* anything else is returned as it is
CallTypeOverride(o, id, req) ==
    IF o.kind = "func" THEN Obj("prod", o.name, id, req, <<>>)
    ELSE IF o.kind = "class" THEN Obj("prod", o.name, id, req, <<>>)
    ELSE Obj("val", o.name, 0, 0, <<>>)

\* variant: the instance cache is never consulted
InInstancesCacheNever(cache, cls) == FALSE

\* `cls in self._instances_cache`
InInstancesCache(cache, cls) == cls \in DOMAIN cache

\* variant: the new instance is returned but not kept
StoreInstanceLost(cache, cls, instance) == cache

\* `self._instances_cache[cls] = instance`
StoreInstance(cache, cls, instance) == Put(cache, cls, instance)

\* the override in force for a key
ActiveOverride(key) ==
    IF key \in DOMAIN dependency_overrides THEN dependency_overrides[key] ELSE NoOverride

\* history: a resolution of key returned val.  The request's log gets the
\* resolution with the override in force; an injectable class resolved
\* while it has no override is recorded in served.
Observe(m, key, val) ==
    IF key \in registry /\ ActiveOverride(key) = NoOverride
    THEN [m EXCEPT !.log = Append(@, [key |-> key, val |-> val, ovr |-> NoOverride]),
                   !.served[key] = @ \cup {val}]
    ELSE [m EXCEPT !.log = Append(@, [key |-> key, val |-> val,
                                      ovr |-> ActiveOverride(key)])]

\* the number of the next object an override returns in this request
NextProduct(m) == Len(m.log) + 1

\* a resolution by type as the wrapper and the callable resolver see it
Sync(t) == [val |-> t.val, exc |-> t.exc, awaiting |-> FALSE, m |-> t.m]

\* `instance = cls(**dependencies)`, cached and returned, unless resolving
\* the constructor parameters (a) raised
Construct(cls, a) ==
    IF a.exc # NoExc THEN [val |-> NoVal, exc |-> a.exc, m |-> a.m]
    ELSE [val |-> Obj("inst", cls, a.m.ctr, 0, a.args), exc |-> NoExc,
          m |-> Observe([a.m EXCEPT !.ctr = @ + 1,
                                    !.built[cls] = @ + 1,
                                    !.cache = StoreInstance(@, cls,
                                                  Obj("inst", cls, a.m.ctr, 0, a.args))],
                        cls, Obj("inst", cls, a.m.ctr, 0, a.args))]

\* a resolution that returns v without building anything
Returned(m, key, v) == [val |-> v, exc |-> NoExc, m |-> Observe(m, key, v)]

\* variant: the instance of a class that is not injectable is kept too
ConstructDirectlyCached(cls, m) ==
    IF ZeroArg(cls)
    THEN Returned([m EXCEPT !.ctr = @ + 1, !.built[cls] = @ + 1,
                            !.cache = StoreInstance(@, cls, Obj("inst", cls, m.ctr, 0, <<>>))],
                  cls, Obj("inst", cls, m.ctr, 0, <<>>))
    ELSE [val |-> NoVal, exc |-> Exc("TypeError", "Cannot resolve dependency"), m |-> m]

\* `if cls not in _registry: try: return cls()`: a class that is not
\* injectable is built without arguments and returned, and the TypeError
\* of a constructor that needs arguments is raised again
ConstructDirectly(cls, m) ==
    IF ZeroArg(cls)
    THEN Returned([m EXCEPT !.ctr = @ + 1, !.built[cls] = @ + 1], cls,
                  Obj("inst", cls, m.ctr, 0, <<>>))
    ELSE [val |-> NoVal, exc |-> Exc("TypeError", "Cannot resolve dependency"), m |-> m]

RECURSIVE ResolveDependency(_, _)
RECURSIVE ResolveCtorParams(_, _, _, _)

\* the loop over inspect.signature(cls).parameters, a being the resolution
\* of parameter i
NextCtorParam(params, i, args, a) ==
    IF a.exc # NoExc THEN [exc |-> a.exc, args |-> args, m |-> a.m]
    ELSE ResolveCtorParams(params, i + 1, a.m, Append(args, a.val))

ResolveCtorParams(params, i, m, args) ==
    IF i > Len(params) THEN [exc |-> NoExc, args |-> args, m |-> m]
    ELSE NextCtorParam(params, i, args, ResolveDependency(params[i], m))

ResolveDependency(cls, m) ==
    IF HasOverride(dependency_overrides, cls) THEN
        Returned(m, cls, CallTypeOverride(dependency_overrides[cls], NextProduct(m), m.req))
    ELSE IF InInstancesCache(m.cache, cls) THEN
        Returned(m, cls, m.cache[cls])
    ELSE IF cls \notin registry THEN
        ConstructDirectly(cls, m)
    ELSE
        Construct(cls, ResolveCtorParams(CtorParams(cls), 1, m, <<>>))

(***************************************************************************)
(* Tachyon._resolve_callable_dependency.  m.dcache is the cache dict the   *)
(* wrapper passes in.  The result says whether the call left a coroutine   *)
(* to await: the caller then suspends, and the result is stored in the     *)
(* cache when the request resumes.                                         *)
(***************************************************************************)
\* variant: the override is called once and its result is handed out again
CallCallableOverrideMemo(o, id, req) == Obj("prod", o.name, 1, req, <<>>)

\* callable(override): functions and classes are called, a value is returned
CallCallableOverride(o, id, req) ==
    IF o.kind \in {"func", "class"} THEN Obj("prod", o.name, id, req, <<>>)
    ELSE Obj("val", o.name, 0, 0, <<>>)

\* variant: the per-request cache is never consulted
InDependencyCacheNever(cache, dep) == FALSE

\* `dependency in cache`
InDependencyCache(cache, dep) == dep \in DOMAIN cache

\* `cache[dependency] = result`
StoreResult(cache, dep, result) == Put(cache, dep, result)

\* dependency(**nested_kwargs): the guard raises the request's fault, the
\* other callables return a value computed for the request
CallDependency(dep, m, nested) ==
    IF dep = "guard" /\ m.fault.stage = "dependency"
    THEN [val |-> NoVal, exc |-> m.fault.exc]
    ELSE [val |-> Obj("res", dep, 0, m.req, nested), exc |-> NoExc]

\* a callable resolution that returns v at once
ReturnedNow(m, key, v) ==
    [val |-> v, exc |-> NoExc, awaiting |-> FALSE, m |-> Observe(m, key, v)]

\* the call of the dependency with its nested dependencies resolved (n),
\* out being what the call does
Called(dep, n, out) ==
    IF out.exc # NoExc
    THEN [val |-> NoVal, exc |-> out.exc, awaiting |-> FALSE,
          m |-> [n.m EXCEPT !.invoked[dep] = @ + 1]]
    ELSE IF IsAsync(dep)
    THEN [val |-> out.val, exc |-> NoExc, awaiting |-> TRUE,
          m |-> [n.m EXCEPT !.invoked[dep] = @ + 1]]
    ELSE ReturnedNow([n.m EXCEPT !.invoked[dep] = @ + 1,
                                 !.dcache = StoreResult(@, dep, out.val)],
                     dep, out.val)

\* the part of the resolver after the loop over the callable's parameters
CallWith(dep, n) ==
    IF n.exc # NoExc
    THEN [val |-> NoVal, exc |-> n.exc, awaiting |-> FALSE, m |-> n.m]
    ELSE Called(dep, n, CallDependency(dep, n.m, n.args))

\* a nested coroutine that is awaited completes before the loop goes on
Awaited(key, a) ==
    IF a.awaiting THEN [a.m EXCEPT !.dcache = StoreResult(@, key, a.val)] ELSE a.m

RECURSIVE ResolveCallableDependency(_, _)
RECURSIVE ResolveNested(_, _, _, _)

\* the loop over the callable's own parameters, a being the resolution of
\* parameter i
NextNested(deps, i, args, a) ==
    IF a.exc # NoExc THEN [exc |-> a.exc, args |-> args, m |-> a.m]
    ELSE ResolveNested(deps, i + 1, Awaited(deps[i].key, a), Append(args, a.val))

ResolveNested(deps, i, m, args) ==
    IF i > Len(deps) THEN [exc |-> NoExc, args |-> args, m |-> m]
    ELSE IF deps[i].src = "call"
    THEN NextNested(deps, i, args, ResolveCallableDependency(deps[i].key, m))
    ELSE NextNested(deps, i, args, Sync(ResolveDependency(deps[i].key, m)))

ResolveCallableDependency(dep, m) ==
    IF HasOverride(dependency_overrides, dep) THEN
        ReturnedNow(m, dep,
                    CallCallableOverride(dependency_overrides[dep], NextProduct(m), m.req))
    ELSE IF InDependencyCache(m.dcache, dep) THEN
        ReturnedNow(m, dep, m.dcache[dep])
    ELSE
        CallWith(dep, ResolveNested(NestedDepends(dep), 1, m, <<>>))

(***************************************************************************)
(* The exception clauses of the route wrapper.                             *)
(***************************************************************************)
Response(status, kind, by, detail, headers, kwargs) ==
    [status |-> status, kind |-> kind, by |-> by, detail |-> detail,
     headers |-> headers, kwargs |-> kwargs]

NoResponse == Response(0, "none", "", "", <<>>, <<>>)

\* the return value of the handler registered for exc_class
HandlerResponse(exc_class) == Response(0, "handler", exc_class, "", <<>>, <<>>)

\* variant: the headers of the exception are left out
DefaultHTTPResponseBare(exc) ==
    Response(exc.status_code, "detail", "", exc.detail, <<>>, <<>>)

\* JSONResponse({"detail": exc.detail}, status_code=exc.status_code) plus
\* exc.headers
DefaultHTTPResponse(exc) ==
    Response(exc.status_code, "detail", "", exc.detail, exc.headers, <<>>)

\* internal_server_error_response()
InternalServerError ==
    Response(500, "internal_server_error", "", "Internal Server Error", <<>>, <<>>)

\* self._exception_handlers.get(HTTPException)
HTTPHandlerKey(exc) == "HTTPException"

\* variant: the handler registered last among the matching ones
LastMatching(handlers, i, exc) ==
    LET idx == { j \in i..Len(handlers) : IsSubclass(exc.type, handlers[j]) }
    IN  IF idx = {} THEN "none"
        ELSE handlers[CHOOSE j \in idx : \A k \in idx : k <= j]

\* variant: the first handler of the table, whatever its class
FirstRegistered(handlers, i, exc) ==
    IF i > Len(handlers) THEN "none" ELSE handlers[i]

RECURSIVE FirstMatching(_, _, _)
\* `for exc_class, handler in self._exception_handlers.items()`: the first
\* key, in insertion order, that isinstance(exc, exc_class) accepts
FirstMatching(handlers, i, exc) ==
    IF i > Len(handlers) THEN "none"
    ELSE IF IsSubclass(exc.type, handlers[i]) THEN handlers[i]
    ELSE FirstMatching(handlers, i + 1, exc)

Keys(handlers) == {handlers[i] : i \in 1..Len(handlers)}

\* variant: without the fallback, the exception that no handler matches
\* leaves the wrapper and the request has no response
HandledByOrRaised(k) == IF k # "none" THEN HandlerResponse(k) ELSE NoResponse

\* except HTTPException ... except Exception ...
HandledBy(k) == IF k # "none" THEN HandlerResponse(k) ELSE InternalServerError

MapException(handlers, exc) ==
    IF IsSubclass(exc.type, "HTTPException") THEN
        IF HTTPHandlerKey(exc) \in Keys(handlers)
        THEN HandlerResponse(HTTPHandlerKey(exc))
        ELSE DefaultHTTPResponse(exc)
    ELSE
        HandledBy(FirstMatching(handlers, 1, exc))

(***************************************************************************)
(* Values taken from a request.  A raw value is a string, modelled as the  *)
(* sequence of its characters; a converted value is a record whose tag t   *)
(* says which of its fields counts.                                        *)
(***************************************************************************)
Chars == {"1", "x", ","}

RawStrings == UNION { [1..n -> Chars] : n \in 0..MaxRawLen }

Val(t, n, s, items) == [t |-> t, n |-> n, s |-> s, items |-> items]

IntV(n) == Val("int", n, <<>>, <<>>)

StrV(s) == Val("str", 0, s, <<>>)

BoolV(b) == Val("bool", IF b THEN 1 ELSE 0, <<>>, <<>>)

NoneV == Val("none", 0, <<>>, <<>>)

ListV(items) == Val("list", 0, <<>>, items)

\* an UploadFile: it has a filename
FileV(s) == Val("file", 0, s, <<>>)

\* a validated Struct, n telling the request body it was decoded from
StructV(n) == Val("struct", n, <<>>, <<>>)

\* the Ellipsis a descriptor built without arguments holds as its default
Required == Val("ellipsis", 0, <<>>, <<>>)

\* the annotation of a parameter: List[...] or not, Optional[...] item or
\* not, and the type under them
Ann(base, opt, list) == [base |-> base, opt |-> opt, list |-> list]

\* str.split(sep) from character i on, cur being the piece begun
RECURSIVE SplitFrom(_, _, _, _)
SplitFrom(s, i, cur, sep) ==
    IF i > Len(s) THEN <<cur>>
    ELSE IF s[i] = sep THEN <<cur>> \o SplitFrom(s, i + 1, <<>>, sep)
    ELSE SplitFrom(s, i + 1, Append(cur, s[i]), sep)

Split(s, sep) == SplitFrom(s, 1, <<>>, sep)

Contains(s, c) == \E i \in 1..Len(s) : s[i] = c

LowerChar(c) == CASE c = "T" -> "t" [] c = "X" -> "x" [] OTHER -> c

\* str.lower()
Lower(s) == [i \in 1..Len(s) |-> LowerChar(s[i])]

DigitOf(c) == CASE c = "0" -> 0 [] c = "1" -> 1 [] c = "2" -> 2 [] c = "3" -> 3
                [] c = "4" -> 4 [] c = "5" -> 5 [] c = "6" -> 6 [] c = "7" -> 7
                [] c = "8" -> 8 [] c = "9" -> 9 [] OTHER -> -1

\* int(s) succeeds: over Chars, a string of digits that is not empty
IsInt(s) == Len(s) > 0 /\ \A i \in 1..Len(s) : DigitOf(s[i]) >= 0

RECURSIVE IntOf(_, _)
\* int(s), read from its first i characters
IntOf(s, i) == IF i = 0 THEN 0 ELSE 10 * IntOf(s, i - 1) + DigitOf(s[i])

\* the strings convert_value takes for True
TrueStrings == { <<"t", "r", "u", "e">>, <<"1">>, <<"t">>, <<"y", "e", "s">> }

(***************************************************************************)
(* Error responses and TypeConverter.                                      *)
(***************************************************************************)
\* validation_error_response(message): 422, code VALIDATION_ERROR; field is
\* the parameter or body field the message is about
ValidationErrorResponse(message, field) ==
    Response(422, "validation_error", field, message, <<>>, <<>>)

\* JSONResponse({"detail": "Not Found"}, status_code=404)
NotFoundResponse == Response(404, "detail", "", "Not Found", <<>>, <<>>)

\* response_validation_error_response(message): 500, code
\* RESPONSE_VALIDATION_ERROR and a generic message
ResponseValidationErrorResponse(message) ==
    Response(500, "response_validation_error", "", "Response validation error", <<>>, <<>>)

\* what a conversion or a lookup hands back: a value, or the response that
\* ends the request
Converted(v) == [val |-> v, resp |-> NoResponse]

Failed(resp) == [val |-> NoneV, resp |-> resp]

\* TypeConverter.convert_value(value_str, target_type, param_name,
\* is_path_param), base being the target type without its Optional
ConvertValue(value_str, base, param_name, is_path_param) ==
    IF base = "bool" THEN Converted(BoolV(Lower(value_str) \in TrueStrings))
    ELSE IF base = "str" THEN Converted(StrV(value_str))
    ELSE IF IsInt(value_str) THEN Converted(IntV(IntOf(value_str, Len(value_str))))
    ELSE IF is_path_param THEN Failed(NotFoundResponse)
    ELSE Failed(ValidationErrorResponse("Invalid value for integer conversion",
                                        param_name))

\* `item_is_opt and (v == "" or v.lower() == "null")`
IsNullItem(v, item_is_opt) ==
    item_is_opt /\ (v = <<>> \/ Lower(v) = <<"n", "u", "l", "l">>)

RECURSIVE ConvertItems(_, _, _, _, _, _)
\* `for v in values`: the list converted so far is acc, c the conversion of
\* item i
NextItem(values, i, acc, ann, param_name, is_path_param, c) ==
    IF c.resp # NoResponse THEN c
    ELSE ConvertItems(values, i + 1, Append(acc, c.val), ann, param_name, is_path_param)

ConvertItems(values, i, acc, ann, param_name, is_path_param) ==
    IF i > Len(values) THEN Converted(ListV(acc))
    ELSE IF IsNullItem(values[i], ann.opt)
    THEN ConvertItems(values, i + 1, Append(acc, NoneV), ann, param_name, is_path_param)
    ELSE NextItem(values, i, acc, ann, param_name, is_path_param,
                  ConvertValue(values[i], ann.base, param_name, is_path_param))

RECURSIVE Flatten(_, _)
\* `flat_values`: every collected value that has a comma is split at it
Flatten(values, i) ==
    IF i > Len(values) THEN <<>>
    ELSE IF Contains(values[i], ",") THEN Split(values[i], ",") \o Flatten(values, i + 1)
    ELSE <<values[i]>> \o Flatten(values, i + 1)

(***************************************************************************)
(* Parameter descriptors and the lookup of each source in the request.     *)
(* A request's data: query maps a name to its occurrences in the query     *)
(* string, path, headers and cookies map a name to a string, form maps a   *)
(* field to a string or an uploaded file, body is the kind of bytes sent.  *)
(***************************************************************************)
Descriptor(src, name, ann, default, alias) ==
    [src |-> src, key |-> name, ann |-> ann, default |-> default, alias |-> alias]

QueryParam(name, ann, default) == Descriptor("query", name, ann, default, "")

HeaderParam(name, default, alias) ==
    Descriptor("header", name, Ann("str", FALSE, FALSE), default, alias)

CookieParam(name, default, alias) ==
    Descriptor("cookie", name, Ann("str", FALSE, FALSE), default, alias)

FormParam(name, default, alias) ==
    Descriptor("form", name, Ann("str", FALSE, FALSE), default, alias)

FileParam(name, default) ==
    Descriptor("file", name, Ann("UploadFile", FALSE, FALSE), default, "")

BodyParam(name, model) ==
    Descriptor("body", name, Ann(model, FALSE, FALSE), Required, "")

\* name: T = Path()
PathParam(name, ann) == Descriptor("path", name, ann, Required, "")

\* name: T, with {name} in the route's path
ImplicitPathParam(name, ann) == Descriptor("implicit_path", name, ann, Required, "")

\* name: BackgroundTasks
BackgroundParam(name) ==
    Descriptor("background", name, Ann("BackgroundTasks", FALSE, FALSE), Required, "")

BodyKinds == {"valid", "wrong_type", "not_json", "empty"}

NoInput ==
    [query |-> EmptyMap, path |-> EmptyMap, headers |-> EmptyMap, cookies |-> EmptyMap,
     form |-> EmptyMap, body |-> "empty", tasks |-> <<>>, payload |-> "dict"]

\* variant: a default of None counts as no default
OrDefaultUnlessNone(p, message, field) ==
    IF p.default \notin {Required, NoneV} THEN Converted(p.default)
    ELSE Failed(ValidationErrorResponse(message, field))

\* `elif info.default is not ...` and the 422 that follows it
OrDefault(p, message, field) ==
    IF p.default # Required THEN Converted(p.default)
    ELSE Failed(ValidationErrorResponse(message, field))

\* query_params.getlist(name)
GetList(query, name) == IF name \in DOMAIN query THEN query[name] ELSE <<>>

\* the List[T] branch of a Query parameter, values being the flattened
\* occurrences
ResolveQueryList(p, values) ==
    IF values = <<>>
    THEN OrDefault(p, "Missing required query parameter", p.key)
    ELSE ConvertItems(values, 1, <<>>, p.ann, p.key, FALSE)

\* variant: the conversion of a single value is asked for as for a path
\* parameter
ResolveQueryAsPath(p, input) ==
    IF p.ann.list THEN ResolveQueryList(p, Flatten(GetList(input.query, p.key), 1))
    ELSE IF p.key \in DOMAIN input.query
    THEN ConvertValue(input.query[p.key][Len(input.query[p.key])], p.ann.base, p.key,
                      TRUE)
    ELSE OrDefault(p, "Missing required query parameter", p.key)

\* `elif isinstance(param.default, Query)`; query_params[name] is the last
\* occurrence of the name
ResolveQuery(p, input) ==
    IF p.ann.list THEN ResolveQueryList(p, Flatten(GetList(input.query, p.key), 1))
    ELSE IF p.key \in DOMAIN input.query
    THEN ConvertValue(input.query[p.key][Len(input.query[p.key])], p.ann.base, p.key,
                      FALSE)
    ELSE OrDefault(p, "Missing required query parameter", p.key)

\* param.name.replace("_", "-").lower()
Hyphenated(name) ==
    CASE name = "x_token" -> "x-token" [] name = "user_agent" -> "user-agent"
      [] OTHER -> name

\* header_info.alias.lower()
LowerName(name) == CASE name = "X-Request-ID" -> "x-request-id" [] OTHER -> name

HeaderName(p) == IF p.alias # "" THEN LowerName(p.alias) ELSE Hyphenated(p.key)

\* `elif isinstance(param.default, Header)`
ResolveHeader(p, input) ==
    IF HeaderName(p) \in DOMAIN input.headers
    THEN Converted(StrV(input.headers[HeaderName(p)]))
    ELSE OrDefault(p, "Missing required header", HeaderName(p))

\* cookie_info.alias or param.name
FieldName(p) == IF p.alias # "" THEN p.alias ELSE p.key

\* `elif isinstance(param.default, Cookie)`
ResolveCookie(p, input) ==
    IF FieldName(p) \in DOMAIN input.cookies
    THEN Converted(StrV(input.cookies[FieldName(p)]))
    ELSE OrDefault(p, "Missing required cookie", FieldName(p))

\* `elif isinstance(param.default, Form)`, after the form has been parsed
ResolveForm(p, input) ==
    IF FieldName(p) \in DOMAIN input.form THEN Converted(input.form[FieldName(p)])
    ELSE OrDefault(p, "Missing required form field", FieldName(p))

\* `elif isinstance(param.default, File)`, after the form has been parsed
ResolveFile(p, input) ==
    IF p.key \in DOMAIN input.form THEN
        IF input.form[p.key].t = "file" THEN Converted(input.form[p.key])
        ELSE OrDefault(p, "Invalid file upload for", p.key)
    ELSE OrDefault(p, "Missing required file", p.key)

\* `parts = value_str.split(",") if value_str else []`
Parts(value_str) == IF value_str # <<>> THEN Split(value_str, ",") ELSE <<>>

\* the conversion of a path variable, the same for both kinds of path
\* parameter
ResolvePathValue(p, value_str) ==
    IF p.ann.list THEN ConvertItems(Parts(value_str), 1, <<>>, p.ann, p.key, TRUE)
    ELSE ConvertValue(value_str, p.ann.base, p.key, TRUE)

\* `elif isinstance(param.default, Path)`
ResolvePath(p, input) ==
    IF p.key \in DOMAIN input.path THEN ResolvePathValue(p, input.path[p.key])
    ELSE Failed(NotFoundResponse)

\* the implicit path parameter: the branch is taken when the name is a path
\* variable of the matched route
ResolveImplicitPath(p, input) == ResolvePathValue(p, input.path[p.key])

\* issubclass(model_class, Struct)
IsStruct(model) == model \in {"Item"}

\* msgspec.json.Decoder(Item).decode(raw_body): bytes that are no JSON
\* document raise DecodeError, a document that does not fit the model raises
\* its subclass ValidationError
Decode(body) ==
    CASE body = "valid"      -> [val |-> StructV(1), exc |-> NoExc]
      [] body = "wrong_type" ->
            [val |-> NoneV, exc |-> Exc("ValidationError", "Expected float, got str")]
      [] body = "not_json"   -> [val |-> NoneV, exc |-> Exc("DecodeError", "JSON is malformed")]
      [] body = "empty"      ->
            [val |-> NoneV, exc |-> Exc("DecodeError", "Input data was truncated")]

(***************************************************************************)
(* The route wrapper: `handler` in Tachyon._add_route.                     *)
(***************************************************************************)
\* the signatures of the endpoints
Params(route) ==
    CASE route = "get_user"    -> <<ByType("Service"), ByType("Repository")>>
      [] route = "get_count"   -> <<ByCall("counted"), ByCall("counted")>>
      [] route = "get_service" -> <<ByCall("get_async"), ByCall("counted")>>
      [] route = "protected"   -> <<ByCall("guard")>>
      [] route = "get_plain"   -> <<ByType("Plain"), ByType("Plain")>>
      [] route = "get_facade"  -> <<ByType("Facade")>>
      [] route = "get_repository" -> <<ByType("Repository")>>
      [] route = "search_items" ->
            <<QueryParam("name", Ann("str", FALSE, FALSE), Required),
              QueryParam("limit", Ann("int", FALSE, FALSE), IntV(10)),
              QueryParam("is_active", Ann("bool", FALSE, FALSE), BoolV(FALSE))>>
      [] route = "get_q"       -> <<QueryParam("items", Ann("int", TRUE, TRUE), Required)>>
      [] route = "get_tags"    ->
            <<QueryParam("ids", Ann("int", FALSE, TRUE), ListV(<<>>))>>
      [] route = "get_item"    -> <<PathParam("item_id", Ann("int", FALSE, FALSE))>>
      [] route = "get_item_implicit" ->
            <<ImplicitPathParam("item_id", Ann("int", FALSE, FALSE))>>
      [] route = "get_p"       -> <<PathParam("ids", Ann("int", TRUE, TRUE))>>
      [] route = "get_p_implicit" -> <<ImplicitPathParam("ids", Ann("int", FALSE, TRUE))>>
      [] route = "create_item" -> <<BodyParam("item", "Item")>>
      [] route = "compare_items" -> <<BodyParam("old", "Item"), BodyParam("new", "Item")>>
      [] route = "headers"     ->
            <<HeaderParam("authorization", Required, ""),
              HeaderParam("x_request_id", StrV(<<"n", "o", "n", "e">>), "")>>
      [] route = "profile"     ->
            <<CookieParam("token", Required, "auth_token"),
              CookieParam("theme", StrV(<<"l", "i", "g", "h", "t">>), "")>>
      [] route = "settings"    ->
            <<FormParam("username", Required, ""),
              FormParam("theme", StrV(<<"l", "i", "g", "h", "t">>), "")>>
      [] route = "upload"      ->
            <<FormParam("name", Required, ""), FileParam("file", NoneV),
              FileParam("avatar", Required)>>
      [] route = "mixed"       ->
            <<ByType("Repository"), BodyParam("item", "Item"),
              QueryParam("limit", Ann("int", FALSE, FALSE), Required),
              FormParam("note", Required, ""), ByCall("counted"),
              HeaderParam("authorization", Required, "")>>
      [] route = "send_notification" -> <<BackgroundParam("background_tasks")>>
      [] route = "report"      -> <<BackgroundParam("background_tasks")>>
      [] route = "notify"      ->
            <<BackgroundParam("background_tasks"), ByCall("guard"),
              QueryParam("email", Ann("str", FALSE, FALSE), Required),
              BodyParam("item", "Item")>>
      [] route = "bad_body"    -> <<BodyParam("data", "dict")>>
      [] route = "get_client"  -> <<ByType("Client")>>
      [] OTHER                 -> <<>>

InjectionRoutes == {"get_user", "get_count", "get_service", "get_plain"}

\* routes whose endpoints take injectable classes
GraphRoutes == {"get_facade", "get_repository", "get_user", "get_service"}

FaultRoutes == {"protected"}

ParamRoutes ==
    {"search_items", "get_q", "get_tags", "get_item", "get_item_implicit", "get_p",
     "get_p_implicit", "create_item", "compare_items", "headers", "profile", "settings", "upload", "mixed"}

TaskRoutes == {"send_notification", "report"}

\* what a request makes the guard or the endpoint of /notify raise
TaskFaults ==
    { [stage |-> g, exc |-> e] :
        g \in {"dependency", "endpoint"},
        e \in { x \in Raisable :
                   \/ x.type = "HTTPException" /\ x.status_code = 401
                   \/ x.type = "ValueError" /\ x.detail = "boom" } }

\* routes that are declared wrongly
ConfigRoutes == {"bad_body", "get_client"}

\* a name absent from a part of the request, or present with one of vals
Maybe(name, vals) == {EmptyMap} \cup { name :> v : v \in vals }

\* the path variables of a matched route: a segment is never empty
Segment(name) == { name :> v : v \in RawStrings \ {<<>>} }

\* one or two occurrences of a name in the query string
Occurring(name) ==
    { name :> <<v>> : v \in RawStrings }
        \cup { name :> <<v, w>> : v \in RawStrings, w \in {<<"1">>, <<"x">>} }

TaskQueues == UNION { [1..n -> {"ok", "raise"}] : n \in 0..MaxTasks }

\* the requests sent to a route
Inputs(route) ==
    CASE route = "search_items" ->
            { [NoInput EXCEPT !.query = a @@ b @@ c] :
                a \in Maybe("name", {<<(<<"x">>)>>}),
                b \in Maybe("limit", { <<v>> : v \in RawStrings }),
                c \in Maybe("is_active", {<<(<<"1">>)>>}) }
      [] route = "get_q" ->
            { [NoInput EXCEPT !.query = a] : a \in {EmptyMap} \cup Occurring("items") }
      [] route = "get_tags" ->
            { [NoInput EXCEPT !.query = a] :
                a \in Maybe("ids", { <<v>> : v \in RawStrings }) }
      [] route \in {"get_item", "get_item_implicit"} ->
            { [NoInput EXCEPT !.path = a] : a \in Segment("item_id") }
      [] route \in {"get_p", "get_p_implicit"} ->
            { [NoInput EXCEPT !.path = a] : a \in Segment("ids") }
      [] route \in {"create_item", "compare_items", "bad_body"} ->
            { [NoInput EXCEPT !.body = b] : b \in BodyKinds }
      [] route = "get_client" -> {NoInput}
      [] route = "headers" ->
            { [NoInput EXCEPT !.headers = a @@ b] :
                a \in Maybe("authorization", {<<"x">>}),
                b \in Maybe("x-request-id", {<<"1">>}) }
      [] route = "profile" ->
            { [NoInput EXCEPT !.cookies = a @@ b] :
                a \in Maybe("auth_token", {<<"x">>}), b \in Maybe("theme", {<<"x">>}) }
      [] route = "settings" ->
            { [NoInput EXCEPT !.form = a @@ b] :
                a \in Maybe("username", {StrV(<<"x">>)}),
                b \in Maybe("theme", {StrV(<<"x">>)}) }
      [] route = "upload" ->
            { [NoInput EXCEPT !.form = a @@ b @@ c] :
                a \in Maybe("name", {StrV(<<"x">>)}),
                b \in Maybe("file", {FileV(<<"x">>), StrV(<<"x">>)}),
                c \in Maybe("avatar", {FileV(<<"x">>), StrV(<<"x">>)}) }
      [] route = "mixed" ->
            { [NoInput EXCEPT !.body = b, !.query = a, !.form = c, !.headers = d] :
                b \in BodyKinds, a \in Maybe("limit", {<<(<<"1">>)>>, <<(<<"x">>)>>}),
                c \in Maybe("note", {StrV(<<"x">>)}),
                d \in Maybe("authorization", {<<"x">>}) }
      [] route = "send_notification" ->
            { [NoInput EXCEPT !.tasks = t] : t \in TaskQueues }
      [] route = "notify" ->
            { [NoInput EXCEPT !.tasks = t, !.query = a, !.body = b, !.payload = y] :
                t \in {<<>>, <<"ok">>, <<"raise", "ok">>},
                a \in Maybe("email", {<<(<<"x">>)>>}),
                b \in {"valid", "not_json"}, y \in {"dict", "unencodable"} }
      [] route = "report" ->
            { [NoInput EXCEPT !.tasks = t, !.payload = y] :
                t \in {<<>>, <<"ok">>, <<"raise">>},
                y \in {"dict", "response", "response_created", "bad_type",
                       "bad_missing"} }

IdleRequest ==
    [st |-> "idle", id |-> 0, route |-> "", fault |-> NoFault, pc |-> 0,
     kwargs |-> <<>>, pending |-> NoVal, log |-> <<>>,
     invoked |-> [d \in Callables |-> 0], stable |-> TRUE, handlers |-> <<>>,
     resp |-> NoResponse, input |-> NoInput, trace |-> <<>>]

\* variant: one dict shared by every invocation
CacheSlotShared(r) == 1

\* `dependency_cache = {}`: the dict is a local of the wrapper invocation
CacheSlot(r) == r

\* the state a stretch of the wrapper works on, q being its locals
Machine(r, q, dcache) ==
    [cache |-> instances_cache, ctr |-> ctr, built |-> built, served |-> served,
     log |-> q.log, dcache |-> dcache, invoked |-> q.invoked, req |-> q.id,
     fault |-> q.fault, input |-> q.input, trace |-> q.trace]

\* history: what the wrapper did, in the order it did it.  "param": the loop
\* came to parameter i, the request having made n resolutions of
\* dependencies; "body", "form": the body was read, the form parsed, for
\* parameter i; "call": the endpoint was called; "task": task i was run,
\* n = 1 if it returned and 0 if it raised; "shape": the response was
\* built from the endpoint's return value
Ev(ev, i, n) == [ev |-> ev, i |-> i, n |-> n]

Did(m, ev, i, n) == [m EXCEPT !.trace = Append(@, Ev(ev, i, n))]

Happened(trace, ev) == \E k \in 1..Len(trace) : trace[k].ev = ev

\* the outcome of a parameter that is no dependency: the value to inject,
\* the response to return, or the exception raised
Step(val, resp, exc, m) == [val |-> val, resp |-> resp, exc |-> exc, m |-> m]

Looked(c, m) == Step(c.val, c.resp, NoExc, m)

\* `if _raw_body is None: _raw_body = await request.body()`
ReadBody(m, i) == IF Happened(m.trace, "body") THEN m ELSE Did(m, "body", i, 0)

\* variant: the form is parsed for each parameter that needs it
ReadFormEachTime(m, i) == Did(m, "form", i, 0)

\* `if _form_data is None: _form_data = await request.form()`
ReadForm(m, i) == IF Happened(m.trace, "form") THEN m ELSE Did(m, "form", i, 0)

\* the try around decoder.decode: `except msgspec.ValidationError` returns
\* validation_error_response(str(e)), anything else is not caught here
Decoded(d, m) ==
    IF d.exc = NoExc THEN Step(d.val, NoResponse, NoExc, m)
    ELSE IF IsSubclass(d.exc.type, "ValidationError")
    THEN Step(NoneV, ValidationErrorResponse(d.exc.detail, ""), NoExc, m)
    ELSE Step(NoneV, NoResponse, d.exc, m)

\* `elif isinstance(param.default, Body)`
ResolveBody(p, i, m) ==
    IF ~IsStruct(p.ann.base)
    THEN Step(NoneV, NoResponse,
              Exc("TypeError", "Body type must be an instance of Tachyon_api.models.Struct"),
              m)
    ELSE Decoded(Decode(m.input.body), ReadBody(m, i))

\* the branches of the loop for the parameters that are no dependencies
Sourced(p, i, m) ==
    CASE p.src = "background"    -> Step(Val("background_tasks", 0, <<>>, <<>>),
                                         NoResponse, NoExc, m)
      [] p.src = "body"          -> ResolveBody(p, i, m)
      [] p.src = "query"         -> Looked(ResolveQuery(p, m.input), m)
      [] p.src = "header"        -> Looked(ResolveHeader(p, m.input), m)
      [] p.src = "cookie"        -> Looked(ResolveCookie(p, m.input), m)
      [] p.src = "form"          -> Looked(ResolveForm(p, m.input), ReadForm(m, i))
      [] p.src = "file"          -> Looked(ResolveFile(p, m.input), ReadForm(m, i))
      [] p.src = "path"          -> Looked(ResolvePath(p, m.input), m)
      [] p.src = "implicit_path" -> Looked(ResolveImplicitPath(p, m.input), m)

RECURSIVE RunParams(_, _, _, _)

\* the loop over the endpoint's parameters, a being the resolution of
\* parameter i
NextParam(params, i, kwargs, a) ==
    IF a.exc # NoExc
    THEN [st |-> "raised", pc |-> i, kwargs |-> kwargs, pending |-> NoVal,
          exc |-> a.exc, resp |-> NoResponse, m |-> a.m]
    ELSE IF a.awaiting
    THEN [st |-> "await", pc |-> i, kwargs |-> kwargs, pending |-> a.val,
          exc |-> NoExc, resp |-> NoResponse, m |-> a.m]
    ELSE RunParams(params, i + 1, Append(kwargs, a.val), a.m)

\* variant: the response of a branch is dropped and the loop goes on
NextSourcedContinuing(params, i, kwargs, a) ==
    IF a.exc # NoExc
    THEN [st |-> "raised", pc |-> i, kwargs |-> kwargs, pending |-> NoVal,
          exc |-> a.exc, resp |-> NoResponse, m |-> a.m]
    ELSE RunParams(params, i + 1, Append(kwargs, a.val), a.m)

\* variant: the loop passes over the parameter that follows
NextSourcedSkipping(params, i, kwargs, a) ==
    IF a.exc # NoExc
    THEN [st |-> "raised", pc |-> i, kwargs |-> kwargs, pending |-> NoVal,
          exc |-> a.exc, resp |-> NoResponse, m |-> a.m]
    ELSE IF a.resp # NoResponse
    THEN [st |-> "returned", pc |-> i, kwargs |-> kwargs, pending |-> NoVal,
          exc |-> NoExc, resp |-> a.resp, m |-> a.m]
    ELSE RunParams(params, i + 2, Append(kwargs, a.val), a.m)

\* the same for a parameter that is no dependency: its branch may return a
\* response, which ends the loop and the request
NextSourced(params, i, kwargs, a) ==
    IF a.exc # NoExc
    THEN [st |-> "raised", pc |-> i, kwargs |-> kwargs, pending |-> NoVal,
          exc |-> a.exc, resp |-> NoResponse, m |-> a.m]
    ELSE IF a.resp # NoResponse
    THEN [st |-> "returned", pc |-> i, kwargs |-> kwargs, pending |-> NoVal,
          exc |-> NoExc, resp |-> a.resp, m |-> a.m]
    ELSE RunParams(params, i + 1, Append(kwargs, a.val), a.m)

\* `for param in sig.parameters.values()`, from parameter i on, until the
\* loop ends, a resolution raises or a coroutine has to be awaited
RunParams(params, i, kwargs, m) ==
    IF i > Len(params)
    THEN [st |-> "call", pc |-> i, kwargs |-> kwargs, pending |-> NoVal,
          exc |-> NoExc, resp |-> NoResponse, m |-> m]
    ELSE IF params[i].src = "call"
    THEN NextParam(params, i, kwargs,
                   ResolveCallableDependency(params[i].key,
                                             Did(m, "param", i, Len(m.log))))
    ELSE IF params[i].src = "type"
    THEN NextParam(params, i, kwargs,
                   Sync(ResolveDependency(params[i].key, Did(m, "param", i, Len(m.log)))))
    ELSE NextSourced(params, i, kwargs,
                     Sourced(params[i], i, Did(m, "param", i, Len(m.log))))

\* a parameter of the endpoint is annotated BackgroundTasks, so that
\* _background_tasks is not None after the loop
HasBackground(params) == \E i \in 1..Len(params) : params[i].src = "background"

\* endpoint_func(**kwargs_to_inject): the endpoint raises the request's
\* fault, or returns its payload after queueing its tasks with add_task
CallEndpoint(q, kwargs) ==
    IF q.fault.stage = "endpoint"
    THEN [exc |-> q.fault.exc, payload |-> "none",
          tasks |-> IF HasBackground(Params(q.route)) THEN q.input.tasks ELSE <<>>]
    ELSE [exc |-> NoExc, payload |-> q.input.payload,
          tasks |-> IF HasBackground(Params(q.route)) THEN q.input.tasks ELSE <<>>]

\* the result of a part of the wrapper after the loop
Part(exc, trace) == [exc |-> exc, trace |-> trace]

\* variant: a task that raises ends the run, and its exception is raised
RunTasksUntilFailure(tasks, j, trace) ==
    LET bad == { k \in j..Len(tasks) : tasks[k] = "raise" }
        end == IF bad = {} THEN Len(tasks) ELSE CHOOSE k \in bad : \A l \in bad : k <= l
    IN  Part(IF bad = {} THEN NoExc ELSE Exc("ValueError", "Task failed!"),
             trace \o [k \in 1..(end - j + 1) |->
                           Ev("task", j + k - 1, IF tasks[j + k - 1] = "ok" THEN 1 ELSE 0)])

RECURSIVE RunTasks(_, _, _)
\* BackgroundTasks.run_tasks(), from task j on: each queued task is run, in
\* the order of the queue, and what a task raises is not raised further
RunTasks(tasks, j, trace) ==
    IF j > Len(tasks) THEN Part(NoExc, trace)
    ELSE RunTasks(tasks, j + 1,
                  Append(trace, Ev("task", j, IF tasks[j] = "ok" THEN 1 ELSE 0)))

\* variant: the tasks are not run
RunBackgroundNever(params, tasks, trace) == Part(NoExc, trace)

\* `if _background_tasks is not None: await _background_tasks.run_tasks()`
RunBackground(params, tasks, trace) ==
    IF HasBackground(params) THEN RunTasks(tasks, 1, trace) ELSE Part(NoExc, trace)

\* the response_model the route was registered with
ResponseModel(route) == IF route \in {"report"} THEN "Out" ELSE "none"

\* isinstance(payload, Response): the endpoint built its response itself
IsResponse(payload) == payload \in {"response", "response_created"}

\* the response object the endpoint built: JSONResponse({"ok": True}), or
\* a response with a status and a header of its own
Built(payload) ==
    IF payload = "response_created"
    THEN Response(201, "raw", "endpoint", "", <<"Location">>, <<>>)
    ELSE Response(200, "raw", "endpoint", "", <<>>, <<>>)

\* msgspec.convert(payload, response_model): what it raises
Convert(payload) ==
    CASE payload = "bad_type"    -> Exc("ValidationError", "Expected int, got str")
      [] payload = "bad_missing" -> Exc("ValidationError", "Object missing required field")
      [] IsResponse(payload)     -> Exc("ValidationError", "Expected object, got JSONResponse")
      [] payload = "unencodable" -> Exc("ValidationError", "Expected object, got set")
      [] OTHER                   -> NoExc

\* what the shaping of the return value gives: a response, or an exception
Shaping(exc, resp) == [exc |-> exc, resp |-> resp]

\* variant: the failure of the conversion is not caught where it happens
ShapeUncaught(route, payload, kwargs) ==
    IF IsResponse(payload) THEN Shaping(NoExc, Built(payload))
    ELSE IF ResponseModel(route) # "none" /\ Convert(payload) # NoExc
    THEN Shaping(Convert(payload), NoResponse)
    ELSE Shaping(NoExc, Response(200, "json", "", "", <<>>, kwargs))

\* variant: the response_model is applied before the pass-through test
ShapeValidatingFirst(route, payload, kwargs) ==
    IF ResponseModel(route) # "none" /\ Convert(payload) # NoExc
    THEN Shaping(NoExc, ResponseValidationErrorResponse(Convert(payload).detail))
    ELSE IF IsResponse(payload) THEN Shaping(NoExc, Built(payload))
    ELSE Shaping(NoExc, Response(200, "json", "", "", <<>>, kwargs))

\* the wrapper from `if isinstance(payload, Response)` to its last return
Shape(route, payload, kwargs) ==
    IF IsResponse(payload) THEN Shaping(NoExc, Built(payload))
    ELSE IF ResponseModel(route) # "none" /\ Convert(payload) # NoExc
    THEN Shaping(NoExc, ResponseValidationErrorResponse(Convert(payload).detail))
    ELSE IF payload = "unencodable"
    THEN \* TachyonJSONResponse(payload) raises on a value JSON has no form for
         Shaping(Exc("TypeError", "Type is not JSON serializable: set"), NoResponse)
    ELSE Shaping(NoExc, Response(200, "json", "", "", <<>>, kwargs))

\* the end of a request: its response and its history
Ended(resp, trace) == [resp |-> resp, trace |-> trace]

\* the return value shaped (s) after the tasks were run (t)
Shaped(s, t) ==
    IF s.exc # NoExc THEN Ended(MapException(exception_handlers, s.exc), t.trace)
    ELSE Ended(s.resp, Append(t.trace, Ev("shape", 0, 0)))

\* the tasks run (t) after the endpoint returned e
AfterTasks(q, kwargs, e, t) ==
    IF t.exc # NoExc THEN Ended(MapException(exception_handlers, t.exc), t.trace)
    ELSE Shaped(Shape(q.route, e.payload, kwargs), t)

\* variant: the tasks are run whether the endpoint returned or raised
AfterCallAlways(q, kwargs, e, trace) ==
    IF e.exc # NoExc
    THEN Ended(MapException(exception_handlers, e.exc),
               RunBackground(Params(q.route), e.tasks, trace).trace)
    ELSE AfterTasks(q, kwargs, e, RunBackground(Params(q.route), e.tasks, trace))

\* the endpoint called (e) after the loop over the parameters
AfterCall(q, kwargs, e, trace) ==
    IF e.exc # NoExc THEN Ended(MapException(exception_handlers, e.exc), trace)
    ELSE AfterTasks(q, kwargs, e, RunBackground(Params(q.route), e.tasks, trace))

\* the response of a stretch that did not suspend
Outcome(q, run) ==
    IF run.exc # NoExc THEN Ended(MapException(exception_handlers, run.exc), run.m.trace)
    ELSE IF run.st = "returned" THEN Ended(run.resp, run.m.trace)
    ELSE AfterCall(q, run.kwargs, CallEndpoint(q, run.kwargs),
                   Append(run.m.trace, Ev("call", 0, 0)))

\* the state after a stretch of request r, whose locals were q
Commit(r, q, run) ==
    /\ instances_cache' = run.m.cache
    /\ ctr' = run.m.ctr
    /\ built' = run.m.built
    /\ served' = run.m.served
    /\ dependency_cache' = [dependency_cache EXCEPT ![CacheSlot(r)] = run.m.dcache]
    /\ requests' = [requests EXCEPT ![r] =
            [q EXCEPT !.st = IF run.st = "await" THEN "await" ELSE "done",
                      !.pc = run.pc,
                      !.kwargs = run.kwargs,
                      !.pending = run.pending,
                      !.log = run.m.log,
                      !.invoked = run.m.invoked,
                      !.handlers = IF run.st = "await" THEN <<>> ELSE exception_handlers,
                      !.resp = IF run.st = "await" THEN NoResponse
                               ELSE Outcome(q, run).resp,
                      !.trace = IF run.st = "await" THEN run.m.trace
                                ELSE Outcome(q, run).trace]]
    /\ UNCHANGED <<dependency_overrides, exception_handlers>>
    /\ UNCHANGED <<tables, settings, classified, ctor_params>>

(***************************************************************************)
(* Routers.  A path is a string of characters; a route is what the         *)
(* decorators of Router and Tachyon._add_route store for it.               *)
(***************************************************************************)
PathChars == {"/", "a", "u"}

\* Router(prefix=...): None, or a string
Prefixes == {<<"None">>, <<>>, <<"/">>, <<"a">>, <<"/", "a">>, <<"a", "/">>,
             <<"/", "a", "/">>}

\* the local paths of the routes of a router
LocalPaths == {<<"/">>, <<"/", "u">>, <<"/", "a", "/", "u">>}

Methods == {"GET", "POST"}

\* endpoint functions decorated on the router, and on the application
RouterFuncs == {"get_users", "create_user"}

AppFuncs == {"health"}

\* summary= of a route decorator
Summaries == {"", "Get all users"}

TagSets == {{}, {"users"}}

\* an entry of Router.routes, and of the route table of the application
RouteInfo(path, method, func, summary, tags, is_websocket) ==
    [path |-> path, method |-> method, func |-> func, summary |-> summary,
     tags |-> tags, is_websocket |-> is_websocket]

NoRouter == [made |-> FALSE, prefix |-> <<>>, tags |-> {}, routes |-> <<>>]

\* Router.__init__: the prefix starts with "/" and does not end with "/",
\* and no prefix is the empty string
NormalizePrefix(prefix) ==
    LET slashed == IF prefix[1] = "/" THEN prefix ELSE <<"/">> \o prefix
    IN  IF prefix = <<"None">> \/ prefix = <<>> THEN <<>>
        ELSE IF slashed[Len(slashed)] = "/" THEN SubSeq(slashed, 1, Len(slashed) - 1)
        ELSE slashed

\* Router.get_full_path(path)
GetFullPath(router, path) == router.prefix \o path

\* variant: the route is registered at the path it has on the router
AddRouteAtLocalPath(table, path, info) ==
    Append(table, info)

\* Tachyon._add_route: Route(path, endpoint=handler, methods=[method]) goes
\* to the end of the table, with the keyword arguments of the registration
AddRoute(table, path, info) ==
    Append(table, [info EXCEPT !.path = path, !.is_websocket = FALSE])

\* Tachyon._add_websocket_route: WebSocketRoute(path, endpoint=...)
AddWebsocketRoute(table, path, info) ==
    Append(table, RouteInfo(path, "WEBSOCKET", info.func, "", {}, TRUE))

RECURSIVE IncludeRoutes(_, _, _)
\* the loop of include_router over router.routes, from route i on
IncludeRoutes(router, i, table) ==
    IF i > Len(router.routes) THEN table
    ELSE IF router.routes[i].is_websocket
    THEN IncludeRoutes(router, i + 1,
             AddWebsocketRoute(table, GetFullPath(router, router.routes[i].path),
                               router.routes[i]))
    ELSE IncludeRoutes(router, i + 1,
             AddRoute(table, GetFullPath(router, router.routes[i].path),
                      router.routes[i]))

\* the router of the transport: the first route of the table whose path
\* and method are those of the request, 0 when there is none (404)
Match(table, path, method) ==
    LET hits == { k \in 1..Len(table) : table[k].path = path /\ table[k].method = method }
    IN  IF hits = {} THEN 0 ELSE CHOOSE k \in hits : \A l \in hits : k <= l

\* router = Router(prefix=prefix, tags=tags)
NewRouter(prefix, tags) ==
    /\ ~sub_router.made
    /\ sub_router' = [made |-> TRUE, prefix |-> NormalizePrefix(prefix), tags |-> tags,
                      routes |-> <<>>]
    /\ UNCHANGED <<app_routes, mounted>>
    /\ UNCHANGED <<serving, settings, classified, ctor_params>>

\* @router.get(path, summary=...), @router.post(...) or @router.websocket(path)
\* on a function: the route is stored with the tags of the router
RouterRoute(path, method, func, summary, is_websocket) ==
    /\ sub_router.made
    /\ Len(sub_router.routes) < MaxRoutes
    /\ \A k \in 1..Len(sub_router.routes) : sub_router.routes[k].func # func
    /\ sub_router' = [sub_router EXCEPT !.routes =
            Append(@, IF is_websocket
                      THEN RouteInfo(path, "WEBSOCKET", func, "", {}, TRUE)
                      ELSE RouteInfo(path, method, func, summary, sub_router.tags, FALSE))]
    /\ UNCHANGED <<app_routes, mounted>>
    /\ UNCHANGED <<serving, settings, classified, ctor_params>>

\* @app.get(path) on a function of the application
AppRoute(path, method, func) ==
    /\ Len(app_routes) < MaxRoutes
    /\ \A k \in 1..Len(app_routes) : app_routes[k].func # func
    /\ app_routes' = AddRoute(app_routes, path, RouteInfo(path, method, func, "", {}, FALSE))
    /\ UNCHANGED <<sub_router, mounted>>
    /\ UNCHANGED <<serving, settings, classified, ctor_params>>

\* app.include_router(router)
IncludeRouter ==
    /\ sub_router.made
    /\ ~mounted.done
    /\ app_routes' = IncludeRoutes(sub_router, 1, app_routes)
    /\ mounted' = [done |-> TRUE, routes |-> sub_router.routes]
    /\ UNCHANGED sub_router
    /\ UNCHANGED <<serving, settings, classified, ctor_params>>

(***************************************************************************)
(* The branches of the wrapper's loop.  A parameter of an endpoint is its  *)
(* annotation, its default and whether the path of the route has a         *)
(* variable of its name.                                                   *)
(***************************************************************************)
Annotations == {"Request", "BackgroundTasks", "Repository", "Plain", "int"}

Descriptors == {"Body", "Query", "Header", "Cookie", "Form", "File", "Path"}

\* inspect.Parameter.empty, Depends(), Depends(f), a descriptor, or a value
Defaults == {"empty", "Depends()", "Depends(f)", "value"} \cup Descriptors

Parameters ==
    [annotation : Annotations, default : Defaults, in_path : BOOLEAN]

\* isinstance(param.default, Depends)
IsExplicitDependency(param) == param.default \in {"Depends()", "Depends(f)"}

\* `param.default is inspect.Parameter.empty and param.annotation in _registry`
IsImplicitDependency(param) ==
    param.default = "empty" /\ param.annotation \in registry

\* the branch of the if/elif chain of the loop that a parameter takes,
\* "none" when it takes no branch and the loop goes on to the next parameter
SourceOf(param) ==
    IF param.annotation = "Request" THEN "Request"
    ELSE IF param.annotation = "BackgroundTasks" THEN "BackgroundTasks"
    ELSE IF IsExplicitDependency(param) \/ IsImplicitDependency(param) THEN "Depends"
    ELSE IF param.default \in Descriptors THEN param.default
    ELSE IF /\ param.default = "empty"
            /\ param.in_path
            /\ ~IsExplicitDependency(param)
            /\ ~IsImplicitDependency(param)
         THEN "implicit Path"
    ELSE "none"

\* endpoint_func(**kwargs_to_inject) for an endpoint with this one parameter:
\* a parameter that was left out and has no default of its own makes the
\* call raise TypeError
CallWithout(param) ==
    IF SourceOf(param) = "none" /\ param.default = "empty" THEN "TypeError" ELSE "returned"

NoParameter ==
    [made |-> FALSE, param |-> [annotation |-> "int", default |-> "empty", in_path |-> FALSE],
     registered |-> FALSE, source |-> "none", injected |-> FALSE, call |-> "none"]

\* @app.get(path) on an endpoint with this parameter, then a request for
\* it: _add_route stores the route without looking at the signature, and
\* the loop of the wrapper takes the parameter through its branches
InspectParameter(param) ==
    /\ classified' = [made |-> TRUE, param |-> param, registered |-> TRUE,
                      source |-> SourceOf(param),
                      injected |-> SourceOf(param) # "none",
                      call |-> CallWithout(param)]
    /\ UNCHANGED <<serving, tables, settings, ctor_params>>

(***************************************************************************)
(* EngineConfig (tachyon_api/engine_config.py).                            *)
(***************************************************************************)
\* the members of AsgiEngine, by value
AsgiEngine == {"starlette", "tachyon", "auto"}

\* values of the environment variable TACHYON_ENGINE
EnvValues == {"unset", "starlette", "tachyon", "auto", "TACHYON", "rust"}

\* str.lower() of a value of the environment variable
LowerEnv(v) == IF v = "TACHYON" THEN "tachyon" ELSE v

\* EngineConfig.__init__(engine): the argument, else the environment
\* variable, else AUTO
ConfiguredEngine(engine, env) ==
    IF engine # "None" THEN engine
    ELSE IF LowerEnv(env) = "starlette" THEN "starlette"
    ELSE IF LowerEnv(env) = "tachyon" THEN "tachyon"
    ELSE "auto"

\* EngineConfig.get_adapter(): the adapter it returns, or the exception it
\* raises; fails says that TachyonEngine(...) raises
GetAdapter(engine, available, fails) ==
    IF engine = "tachyon" THEN
        IF ~available THEN "ImportError"
        ELSE IF fails THEN "Exception"
        ELSE "TachyonEngineApplicationAdapter"
    ELSE IF engine = "starlette" THEN "StarletteApplicationAdapter"
    ELSE IF available /\ ~fails THEN "TachyonEngineApplicationAdapter"
    ELSE "StarletteApplicationAdapter"

\* EngineConfig.get_engine_name()
GetEngineName(engine, available) ==
    IF engine = "tachyon" THEN "tachyon-engine"
    ELSE IF engine = "starlette" THEN "starlette"
    ELSE IF available THEN "tachyon-engine" ELSE "starlette"

\* EngineConfig.is_tachyon_engine()
IsTachyonEngine(engine, available) == GetEngineName(engine, available) = "tachyon-engine"

NoSelection ==
    [made |-> FALSE, argument |-> "None", failed |-> FALSE, engine |-> "auto",
     adapter |-> "none", is_tachyon_engine |-> FALSE]

\* `from .adapters import TACHYON_ENGINE_AVAILABLE`: the import of
\* tachyon_engine succeeded or raised ImportError
ImportAdapters(available) ==
    /\ installed = "unknown"
    /\ installed' = IF available THEN "yes" ELSE "no"
    /\ UNCHANGED <<environ, selection>>
    /\ UNCHANGED <<serving, tables, classified, ctor_params>>

\* the environment variable is set before the process starts
SetEnviron(v) ==
    /\ installed = "unknown"
    /\ environ = "unset"
    /\ environ' = v
    /\ UNCHANGED <<installed, selection>>
    /\ UNCHANGED <<serving, tables, classified, ctor_params>>

\* EngineConfig.set_default_engine(engine)
SetDefaultEngine(engine) ==
    /\ installed # "unknown"
    /\ environ # engine
    /\ environ' = engine
    /\ UNCHANGED <<installed, selection>>
    /\ UNCHANGED <<serving, tables, classified, ctor_params>>

\* config = EngineConfig(engine), then config.get_adapter() and
\* config.is_tachyon_engine()
Configure(engine, fails) ==
    /\ installed # "unknown"
    /\ selection' = [made |-> TRUE, argument |-> engine, failed |-> fails,
                     engine |-> ConfiguredEngine(engine, environ),
                     adapter |-> GetAdapter(ConfiguredEngine(engine, environ),
                                            installed = "yes", fails),
                     is_tachyon_engine |->
                         IsTachyonEngine(ConfiguredEngine(engine, environ),
                                         installed = "yes")]
    /\ UNCHANGED <<installed, environ>>
    /\ UNCHANGED <<serving, tables, classified, ctor_params>>

(***************************************************************************)
(* The application and its requests.                                       *)
(***************************************************************************)
Init ==
    /\ dependency_overrides = EmptyMap
    /\ instances_cache = EmptyMap
    /\ exception_handlers = <<>>
    /\ requests = [r \in Slots |-> IdleRequest]
    /\ dependency_cache = [r \in Slots |-> EmptyMap]
    /\ ctr = 1
    /\ nreq = 0
    /\ built = [c \in Classes |-> 0]
    /\ served = [c \in registry |-> {}]
    /\ sub_router = NoRouter
    /\ app_routes = <<>>
    /\ mounted = [done |-> FALSE, routes |-> <<>>]
    /\ classified = NoParameter
    /\ installed = "unknown"
    /\ environ = "unset"
    /\ selection = NoSelection
    /\ ctor_params = DeclaredParams

\* the wrapper with its locals q initialised runs from its first parameter
Begin(r, q) ==
    Commit(r, q, RunParams(Params(q.route), 1, <<>>, Machine(r, q, EmptyMap)))

\* the awaited result is stored in the cache and injected, and the wrapper
\* goes on with the parameter after pc
Continue(r, q, dep) ==
    Commit(r, q, RunParams(Params(q.route), q.pc + 1, Append(q.kwargs, q.pending),
                           Observe([Machine(r, q, dependency_cache[CacheSlot(r)])
                                        EXCEPT !.dcache = StoreResult(@, dep, q.pending)],
                                   dep, q.pending)))

\* the router calls the wrapper for a new request: its locals are
\* initialised (the slot of a request that has its response is free) and it
\* runs from its first parameter to its first await or to its response
StartRequest(r, route, fault, input) ==
    /\ requests[r].st \in {"idle", "done"}
    /\ nreq < MaxRequests
    /\ nreq' = nreq + 1
    /\ Begin(r, [IdleRequest EXCEPT !.st = "ready", !.id = nreq + 1, !.route = route,
                                    !.fault = fault, !.pc = 1, !.input = input])

\* the awaited coroutine has finished: its result is cached and the wrapper
\* goes on with the next parameter
Resume(r) ==
    /\ requests[r].st = "await"
    /\ Continue(r, requests[r], Params(requests[r].route)[requests[r].pc].key)
    /\ UNCHANGED nreq

\* the requests being served have seen the overrides change
Unsettled ==
    [r \in Slots |-> IF requests[r].st = "idle" THEN requests[r]
                     ELSE [requests[r] EXCEPT !.stable = FALSE]]

\* app.dependency_overrides[key] = o
SetOverride(key, o) ==
    /\ ~(HasOverride(dependency_overrides, key) /\ dependency_overrides[key] = o)
    /\ dependency_overrides' = Put(dependency_overrides, key, o)
    /\ requests' = Unsettled
    /\ UNCHANGED <<instances_cache, exception_handlers, dependency_cache, ctr, nreq,
                   built, served>>
    /\ UNCHANGED <<tables, settings, classified, ctor_params>>

\* app.dependency_overrides.clear()
ClearOverrides ==
    /\ DOMAIN dependency_overrides # {}
    /\ dependency_overrides' = EmptyMap
    /\ requests' = Unsettled
    /\ UNCHANGED <<instances_cache, exception_handlers, dependency_cache, ctr, nreq,
                   built, served>>
    /\ UNCHANGED <<tables, settings, classified, ctor_params>>

\* @app.exception_handler(exc_class): a new key goes to the end of the dict
RegisterHandler(exc_class) ==
    /\ exc_class \notin Keys(exception_handlers)
    /\ Len(exception_handlers) < MaxHandlers
    /\ exception_handlers' = Append(exception_handlers, exc_class)
    /\ UNCHANGED <<dependency_overrides, instances_cache, requests, dependency_cache,
                   ctr, nreq, built, served>>
    /\ UNCHANGED <<tables, settings, classified, ctor_params>>

(***************************************************************************)
(* Specifications.  Spec drives the dependency resolver: requests for the  *)
(* routes with dependencies, interleaved with a test changing the          *)
(* overrides.  SpecErrors drives the exception clauses: handlers are       *)
(* registered and requests raise in a dependency or in the endpoint.       *)
(***************************************************************************)
\* the frame a new call of the wrapper gets: the activations are
\* interchangeable, so the first one never used is taken, and when all have
\* been used the first whose request has its response
FreeSlot(r) ==
    IF \E s \in Slots : requests[s].st = "idle"
    THEN requests[r].st = "idle" /\ \A s \in 1..(r - 1) : requests[s].st # "idle"
    ELSE requests[r].st = "done" /\ \A s \in 1..(r - 1) : requests[s].st # "done"

Next ==
    \/ \E r \in Slots, route \in InjectionRoutes :
            FreeSlot(r) /\ StartRequest(r, route, NoFault, NoInput)
    \/ \E r \in Slots : Resume(r)
    \/ \E key \in OverrideKeys : \E o \in OverridesOf(key) : SetOverride(key, o)
    \/ ClearOverrides

Spec == Init /\ [][Next]_vars

NextErrors ==
    \/ \E t \in ExcTypes : RegisterHandler(t)
    \/ \E route \in FaultRoutes, fault \in Faults : StartRequest(1, route, fault, NoInput)

SpecErrors == Init /\ [][NextErrors]_vars

NextParams ==
    \E route \in ParamRoutes : \E input \in Inputs(route) :
        StartRequest(1, route, NoFault, input)

SpecParams == Init /\ [][NextParams]_vars

NextTasks ==
    \E r \in Slots, route \in TaskRoutes : \E input \in Inputs(route) :
        FreeSlot(r) /\ StartRequest(r, route, NoFault, input)

SpecTasks == Init /\ [][NextTasks]_vars

\* the classes are declared otherwise, before the application serves
DeclareClasses(params) ==
    /\ nreq = 0
    /\ ctor_params = DeclaredParams
    /\ params # DeclaredParams
    /\ ctor_params' = params
    /\ UNCHANGED <<serving, tables, settings, classified>>

NextGraph ==
    \/ \E params \in Declarations : DeclareClasses(params)
    \/ \E r \in Slots, route \in GraphRoutes :
            FreeSlot(r) /\ StartRequest(r, route, NoFault, NoInput)
    \/ \E r \in Slots : Resume(r)

SpecGraph == Init /\ [][NextGraph]_vars

NextTaskFaults ==
    \/ RegisterHandler("ValueError")
    \/ \E fault \in TaskFaults \cup {NoFault} : \E input \in Inputs("notify") :
        StartRequest(1, "notify", fault, input)

SpecTaskFaults == Init /\ [][NextTaskFaults]_vars

NextConfig ==
    \/ \E t \in ExcTypes : RegisterHandler(t)
    \/ \E route \in ConfigRoutes : \E input \in Inputs(route) :
            StartRequest(1, route, NoFault, input)

SpecConfig == Init /\ [][NextConfig]_vars

NextSignature == \E param \in Parameters : InspectParameter(param)

SpecSignature == Init /\ [][NextSignature]_vars

NextEngine ==
    \/ \E available \in BOOLEAN : ImportAdapters(available)
    \/ \E v \in EnvValues \ {"unset"} : SetEnviron(v)
    \/ \E engine \in AsgiEngine : SetDefaultEngine(engine)
    \/ \E engine \in AsgiEngine \cup {"None"}, fails \in BOOLEAN : Configure(engine, fails)

SpecEngine == Init /\ [][NextEngine]_vars

NextRouter ==
    \/ \E prefix \in Prefixes, tags \in TagSets : NewRouter(prefix, tags)
    \/ \E path \in LocalPaths, method \in Methods, func \in RouterFuncs,
          summary \in Summaries, is_websocket \in BOOLEAN :
            RouterRoute(path, method, func, summary, is_websocket)
    \/ \E path \in LocalPaths \cup {<<"/", "a", "/", "u">>}, method \in Methods,
          func \in AppFuncs : AppRoute(path, method, func)
    \/ IncludeRouter

SpecRouter == Init /\ [][NextRouter]_vars

(***************************************************************************)
(* Properties of the dependency resolver.                                  *)
(***************************************************************************)
RECURSIVE Reach(_)
\* an object and the objects it holds
Reach(v) == {v} \cup UNION { Reach(v.args[i]) : i \in 1..Len(v.args) }

\* the objects a request has been given so far
Held(r) ==
    UNION { Reach(requests[r].kwargs[i]) : i \in 1..Len(requests[r].kwargs) }

\* the resolutions a request has made so far
LogOf(r) == { requests[r].log[i] : i \in 1..Len(requests[r].log) }

\* v is what calling override o returns
IsProductOf(v, o) == v.k = "prod" /\ v.cls = o.name

\* a request that got its response from the endpoint while the overrides
\* stayed as they are now
Settled(r) ==
    /\ requests[r].st = "done"
    /\ requests[r].stable
    /\ requests[r].resp.kind = "json"

\* C1: an injectable class that has no override is constructed at most once
\* per application, and every resolution of it, in whatever request and
\* however the requests in flight interleave, returns that one instance.
C1_SingletonPerApplication ==
    \A c \in registry : built[c] <= 1 /\ Cardinality(served[c]) <= 1

\* two requests, one of them suspended, have resolved the same class
C1_Witness ==
    \E r1, r2 \in Slots :
        /\ requests[r1].st = "await"
        /\ requests[r2].st = "done"
        /\ \E e1 \in LogOf(r1), e2 \in LogOf(r2) :
              /\ e1.key = "Repository" /\ e1.ovr = NoOverride
              /\ e2.key = "Repository" /\ e2.ovr = NoOverride
              /\ e1.val = e2.val

\* C2: while a class has an override every resolution of it returns what
\* the override returns, also when a singleton of the class is cached; while
\* it has none, every resolution returns the one shared instance of the
\* class itself.
C2_OverrideShadowsSingleton ==
    \A r \in Slots : \A e \in LogOf(r) :
        e.key \in registry =>
            IF e.ovr # NoOverride
            THEN IsProductOf(e.val, e.ovr)
            ELSE e.val.k = "inst" /\ e.val.cls = e.key /\ served[e.key] = {e.val}

\* the class was resolved to the override's product although its singleton
\* was cached, and after the override was cleared to the singleton again
C2_Witness ==
    \E r1, r2 \in Slots :
        /\ requests[r1].id < requests[r2].id
        /\ "Repository" \in DOMAIN instances_cache
        /\ \E e1 \in LogOf(r1), e2 \in LogOf(r2) :
              /\ e1.key = "Repository" /\ e1.ovr # NoOverride
              /\ IsProductOf(e1.val, e1.ovr)
              /\ e2.key = "Repository" /\ e2.ovr = NoOverride
              /\ e2.val = instances_cache["Repository"]

\* C3: a request served while Repository has an override gets the product
\* of that override wherever a Repository is injected: as the endpoint's own
\* parameter and as the constructor argument of the Service it is given.
C3_NextRequestUsesOverride ==
    \A r \in Slots :
        (Settled(r) /\ requests[r].route = "get_user"
                    /\ "Repository" \in DOMAIN dependency_overrides) =>
            LET o       == dependency_overrides["Repository"]
                service == requests[r].kwargs[1]
                repo    == requests[r].kwargs[2]
            IN  /\ IsProductOf(repo, o)
                /\ \A i \in 1..Len(service.args) : IsProductOf(service.args[i], o)

\* C4: a request served while there is no override is given no object that
\* an override produced, not even inside the singleton it is given.  (With
\* no override left, every such object comes from an override that has
\* been cleared.)
C4_NoProductAfterClear ==
    \A r \in Slots :
        (Settled(r) /\ DOMAIN dependency_overrides = {}) =>
            \A v \in Held(r) : v.k # "prod"

\* a step leaves the cache entries of every overridden key as they were
C5_CachesUntouched ==
    \A key \in DOMAIN dependency_overrides :
        /\ (key \in DOMAIN instances_cache') = (key \in DOMAIN instances_cache)
        /\ key \in DOMAIN instances_cache => instances_cache'[key] = instances_cache[key]
        /\ \A r \in Slots :
              requests'[r].id = requests[r].id =>
                  /\ (key \in DOMAIN dependency_cache'[r]) = (key \in DOMAIN dependency_cache[r])
                  /\ key \in DOMAIN dependency_cache[r] =>
                        dependency_cache'[r][key] = dependency_cache[r][key]

\* every resolution of an overridden key got an object of its own from the
\* override
C5_CalledEachTime ==
    \A r \in Slots :
        \A i, j \in 1..Len(requests[r].log) :
            LET e == requests[r].log[i]
                f == requests[r].log[j]
            IN  /\ e.ovr # NoOverride => IsProductOf(e.val, e.ovr)
                /\ (i # j /\ e.ovr # NoOverride /\ f.ovr # NoOverride) => e.val # f.val

\* C5: a resolution of an overridden class or callable calls the override
\* each time, twice in a request that refers to it twice, and neither the
\* instance cache nor the request's dependency cache gains or changes an
\* entry for the overridden key.
C5_OverrideBypassesCaches == [][C5_CachesUntouched /\ C5_CalledEachTime']_vars

\* a request referred twice to an overridden callable and was given two
\* objects, and its cache has no entry for the callable
C5_Witness ==
    \E r \in Slots :
        /\ Settled(r)
        /\ requests[r].route = "get_count"
        /\ "counted" \in DOMAIN dependency_overrides
        /\ IsProductOf(requests[r].kwargs[1], dependency_overrides["counted"])
        /\ IsProductOf(requests[r].kwargs[2], dependency_overrides["counted"])
        /\ requests[r].kwargs[1] # requests[r].kwargs[2]
        /\ "counted" \notin DOMAIN dependency_cache[r]

\* the callables a route refers to more than once: as two parameters, or as
\* a parameter and a nested dependency
ReferredTwice(route) ==
    IF route \in {"get_count", "get_service"} THEN {"counted"} ELSE {}

\* C6: a callable without override that a request refers to more than once
\* is called exactly once in that request, and once again in each later one.
C6_CalledOncePerRequest ==
    \A r \in Slots :
        Settled(r) =>
            \A dep \in ReferredTwice(requests[r].route) :
                dep \notin DOMAIN dependency_overrides => requests[r].invoked[dep] = 1

\* two requests in a row each called the callable once, the second one
\* through a nested dependency
C6_Witness ==
    \E r1, r2 \in Slots :
        /\ Settled(r1) /\ Settled(r2)
        /\ requests[r1].id < requests[r2].id
        /\ requests[r1].route = "get_count" /\ requests[r2].route = "get_service"
        /\ "counted" \notin DOMAIN dependency_overrides
        /\ requests[r1].invoked["counted"] = 1
        /\ requests[r2].invoked["counted"] = 1
        /\ requests[r2].kwargs[1].args[1] = requests[r2].kwargs[2]

\* the results of callables a request holds: injected, awaited or cached
ResultsOf(r) ==
    { v \in Held(r) \cup Reach(requests[r].pending)
              \cup UNION { Reach(dependency_cache[r][d]) : d \in DOMAIN dependency_cache[r] } :
        v.k = "res" }

\* C7: every result of a callable dependency that a request holds was
\* computed in that request, also when requests using the same async
\* dependency are suspended in it at the same time.
C7_CacheNotShared ==
    \A r \in Slots : \A v \in ResultsOf(r) : v.req = requests[r].id

\* a request went through the async dependency while an earlier request was
\* suspended in it
C7_Witness ==
    \E r1, r2 \in Slots :
        /\ requests[r1].st = "await" /\ requests[r1].route = "get_service"
        /\ requests[r2].st = "done" /\ requests[r2].route = "get_service"
        /\ requests[r1].id < requests[r2].id
        /\ \E v \in ResultsOf(r2) : v.cls = "get_async"

(***************************************************************************)
(* Properties of the exception clauses.                                    *)
(***************************************************************************)
\* request r raised its fault and has the response chosen for it
Raised(r) == requests[r].st = "done" /\ requests[r].fault # NoFault

\* the response is the default one for HTTP error exc
IsDefaultHTTPResponse(resp, exc) ==
    /\ resp.kind = "detail"
    /\ resp.status = exc.status_code
    /\ resp.detail = exc.detail
    /\ resp.headers = exc.headers

\* C8: an exception whose exact class has a registered handler is answered
\* by that handler, whatever was registered before it and also when the
\* class derives from HTTPException.
C8_ExactHandlerWins ==
    \A r \in Slots :
        LET q == requests[r]
        IN  (Raised(r) /\ q.fault.exc.type \in Keys(q.handlers)) =>
                q.resp = HandlerResponse(q.fault.exc.type)

\* C9: an exception that is no HTTP error and whose exact class has no
\* handler is answered by the handler of the first registered class that is
\* one of its superclasses, and by the generic 500 response if there is none.
C9_FirstRegisteredAncestor ==
    \A r \in Slots :
        LET q   == requests[r]
            t   == q.fault.exc.type
            idx == { i \in 1..Len(q.handlers) : IsSubclass(t, q.handlers[i]) }
        IN  (Raised(r) /\ t \notin Keys(q.handlers) /\ ~IsSubclass(t, "HTTPException")) =>
                IF idx = {}
                THEN q.resp.status = 500 /\ q.resp.kind = "internal_server_error"
                ELSE \E i \in idx :
                        /\ \A j \in idx : i <= j
                        /\ q.resp = HandlerResponse(q.handlers[i])

\* two superclasses are registered, the more general one first, and it is
\* the one that answers
C9_Witness ==
    \E r \in Slots :
        /\ Raised(r)
        /\ requests[r].fault.exc.type = "UnicodeError"
        /\ requests[r].handlers = <<"Exception", "ValueError">>
        /\ requests[r].resp = HandlerResponse("Exception")

\* C10 as stated: an HTTP error whose exact class has no handler gets the
\* default response, before the handler of any superclass is considered.
C10_DefaultBeforeAnyAncestor ==
    \A r \in Slots :
        LET q == requests[r]
            t == q.fault.exc.type
        IN  (Raised(r) /\ IsSubclass(t, "HTTPException") /\ t \notin Keys(q.handlers)) =>
                IsDefaultHTTPResponse(q.resp, q.fault.exc)

\* C10 as amended: an HTTP error, of HTTPException or of a subclass, gets the
\* default response with its status code, detail and headers when neither
\* its exact class nor HTTPException has a handler, before the handler of
\* any other superclass is considered.
C10_DefaultUnlessHTTPHandler ==
    \A r \in Slots :
        LET q == requests[r]
            t == q.fault.exc.type
        IN  (Raised(r) /\ IsSubclass(t, "HTTPException") /\ t \notin Keys(q.handlers)
                       /\ "HTTPException" \notin Keys(q.handlers)) =>
                IsDefaultHTTPResponse(q.resp, q.fault.exc)

\* a subclass of HTTPException carrying headers was raised while a handler
\* for Exception was registered, and got the default response
C10_Witness ==
    \E r \in Slots :
        /\ Raised(r)
        /\ requests[r].fault.exc.type = "KYCException"
        /\ requests[r].fault.exc.headers # <<>>
        /\ "Exception" \in Keys(requests[r].handlers)
        /\ "HTTPException" \notin Keys(requests[r].handlers)
        /\ IsDefaultHTTPResponse(requests[r].resp, requests[r].fault.exc)

\* the exception of request r is an instance of no class of the handler table
Unhandled(r) ==
    /\ Raised(r)
    /\ \A i \in 1..Len(requests[r].handlers) :
          ~IsSubclass(requests[r].fault.exc.type, requests[r].handlers[i])

\* status 500 and {success: false, error: "Internal Server Error",
\* code: "INTERNAL_SERVER_ERROR"}, and nothing else
IsGeneric500(resp) ==
    /\ resp.status = 500
    /\ resp.kind = "internal_server_error"
    /\ resp.detail = "Internal Server Error"
    /\ resp.by = "" /\ resp.headers = <<>> /\ resp.kwargs = <<>>

\* C11 as stated: every exception that no registered handler matches gets
\* the generic 500 response, the same for any two such exceptions.
C11_Generic500WhenUnhandled ==
    \A r \in Slots : Unhandled(r) => IsGeneric500(requests[r].resp)

\* C11 as amended: every exception that is no HTTP error and that no
\* registered handler matches gets the generic 500 response, which shows
\* neither its class nor its message.
C11_Generic500WhenUnhandledNonHTTP ==
    \A r \in Slots :
        (Unhandled(r) /\ ~IsSubclass(requests[r].fault.exc.type, "HTTPException")) =>
            IsGeneric500(requests[r].resp)

\* a ValueError with a message was raised while only a handler for one of
\* its subclasses was registered, and the response is the generic one
C11_Witness ==
    \E r \in Slots :
        /\ Raised(r)
        /\ requests[r].fault.exc.type = "ValueError"
        /\ requests[r].fault.exc.detail = "secret"
        /\ requests[r].handlers = <<"UnicodeError">>
        /\ IsGeneric500(requests[r].resp)

(***************************************************************************)
(* Properties of the response shaping.                                     *)
(***************************************************************************)
\* request r has its response
Done(r) == requests[r].st = "done"

\* the endpoint of request r returned a value that the response_model of
\* its route rejects
ConversionFailed(r) ==
    /\ Done(r)
    /\ Happened(requests[r].trace, "call")
    /\ requests[r].fault = NoFault
    /\ ~IsResponse(requests[r].input.payload)
    /\ ResponseModel(requests[r].route) # "none"
    /\ Convert(requests[r].input.payload) # NoExc

Reached(r, i) ==
    \E k \in 1..Len(requests[r].trace) :
        requests[r].trace[k].ev = "param" /\ requests[r].trace[k].i = i

\* the raw values the request has for path or query parameter p: the path
\* variable or the last occurrence in the query string, and for a list the
\* elements between the commas
ItemsOf(p, input) ==
    IF p.src = "query" THEN
        IF p.ann.list THEN Flatten(GetList(input.query, p.key), 1)
        ELSE IF p.key \in DOMAIN input.query
        THEN <<input.query[p.key][Len(input.query[p.key])]>>
        ELSE <<>>
    ELSE IF p.key \notin DOMAIN input.path THEN <<>>
    ELSE IF p.ann.list THEN Parts(input.path[p.key])
    ELSE <<input.path[p.key]>>

\* v cannot be converted to the type declared by ann
Unconvertible(v, ann) ==
    ann.base = "int" /\ ~IsInt(v) /\ ~(ann.list /\ IsNullItem(v, ann.opt))

\* C13: when the wrapper comes to a path parameter, explicit or implicit,
\* one of whose values cannot be converted, the response is 404; when it
\* comes to such a Query parameter, the response is 422.
C13_Path404Query422 ==
    \A r \in Slots : \A i \in 1..Len(Params(requests[r].route)) :
        LET q == requests[r]
            p == Params(q.route)[i]
        IN  (/\ Done(r) /\ Reached(r, i)
             /\ p.src \in {"path", "implicit_path", "query"}
             /\ \E k \in 1..Len(ItemsOf(p, q.input)) :
                    Unconvertible(ItemsOf(p, q.input)[k], p.ann))
            => q.resp.status = IF p.src = "query" THEN 422 ELSE 404

\* the second element of a list in the path could not be converted, the
\* first being empty and taken for None, and the response is 404
C13_Witness ==
    \E r \in Slots :
        /\ Done(r)
        /\ requests[r].route = "get_p"
        /\ requests[r].input.path["ids"] = <<",", "x">>
        /\ requests[r].resp = NotFoundResponse

\* the wrapper of request r came to a Body parameter and the bytes of the
\* request do not decode to the model
BodyRejected(r) ==
    /\ Done(r)
    /\ \E i \in 1..Len(Params(requests[r].route)) :
          Params(requests[r].route)[i].src = "body" /\ Reached(r, i)
    /\ Decode(requests[r].input.body).exc # NoExc

\* C14: a body that cannot be decoded or validated against the model, bytes
\* that are no JSON included, is answered with the 422 validation error,
\* and the endpoint is not called.
C14_InvalidBody422 ==
    \A r \in Slots :
        BodyRejected(r) =>
            /\ requests[r].resp.status = 422
            /\ requests[r].resp.kind = "validation_error"
            /\ ~Happened(requests[r].trace, "call")

IsParamEv(e) == e.ev = "param"

\* the parameters the loop of request r came to, in the order it did
ParamEvents(r) == SelectSeq(requests[r].trace, IsParamEv)

\* the number of resolutions of dependencies request r had made when the
\* loop left the k-th parameter it came to
LeftAt(r, k) ==
    IF k < Len(ParamEvents(r)) THEN ParamEvents(r)[k + 1].n ELSE Len(requests[r].log)

Fails(p, input) ==
    CASE p.src = "query" ->
            \/ ItemsOf(p, input) = <<>> /\ p.default = Required
            \/ \E k \in 1..Len(ItemsOf(p, input)) : Unconvertible(ItemsOf(p, input)[k], p.ann)
      [] p.src \in {"path", "implicit_path"} ->
            \/ p.key \notin DOMAIN input.path
            \/ \E k \in 1..Len(ItemsOf(p, input)) : Unconvertible(ItemsOf(p, input)[k], p.ann)
      [] p.src = "header" -> HeaderName(p) \notin DOMAIN input.headers /\ p.default = Required
      [] p.src = "cookie" -> FieldName(p) \notin DOMAIN input.cookies /\ p.default = Required
      [] p.src = "form"   -> FieldName(p) \notin DOMAIN input.form /\ p.default = Required
      [] p.src = "file"   ->
            /\ p.default = Required
            /\ (p.key \in DOMAIN input.form => input.form[p.key].t # "file")
      [] p.src = "body"   -> IsSubclass(Decode(input.body).exc.type, "ValidationError")
      [] OTHER            -> FALSE

\* C16: when the loop comes to a parameter whose resolution fails, the
\* request ends there with the error response of that parameter, 404 for a
\* path parameter and 422 otherwise: the loop comes to no later parameter,
\* no later dependency is resolved, and the endpoint is not called.
C16_FirstFailureEndsRequest ==
    \A r \in Slots : \A i \in 1..Len(Params(requests[r].route)) :
        LET q == requests[r]
            p == Params(q.route)[i]
        IN  (Done(r) /\ Reached(r, i) /\ Fails(p, q.input)) =>
                /\ Len(ParamEvents(r)) = i
                /\ Len(q.kwargs) = i - 1
                /\ Len(q.log) = ParamEvents(r)[i].n
                /\ ~Happened(q.trace, "call")
                /\ q.resp.status
                      = (IF p.src \in {"path", "implicit_path"} THEN 404 ELSE 422)

\* the third of six parameters, a query value, could not be converted: the
\* form was not parsed and the callable dependency declared after it was not
\* called
C16_Witness ==
    \E r \in Slots :
        /\ Done(r)
        /\ requests[r].route = "mixed"
        /\ requests[r].input.body = "valid"
        /\ Fails(Params("mixed")[3], requests[r].input)
        /\ ~Fails(Params("mixed")[4], requests[r].input)
        /\ Len(ParamEvents(r)) = 3
        /\ ~Happened(requests[r].trace, "form")
        /\ requests[r].invoked["counted"] = 0
        /\ requests[r].resp.status = 422

\* the request has no value under the name of parameter p
Absent(p, input) ==
    CASE p.src = "query"  -> p.key \notin DOMAIN input.query
      [] p.src = "header" -> HeaderName(p) \notin DOMAIN input.headers
      [] p.src = "cookie" -> FieldName(p) \notin DOMAIN input.cookies
      [] p.src = "form"   -> FieldName(p) \notin DOMAIN input.form
      [] p.src = "file"   -> p.key \notin DOMAIN input.form
      [] OTHER            -> FALSE

\* C20: when the loop comes to a Query, Header, Cookie, Form or File
\* parameter whose value is absent from the request, the endpoint is given
\* the default of the descriptor if it has one, and otherwise the response
\* is 422 and the endpoint is not called.
C20_DefaultOrRequired ==
    \A r \in Slots : \A i \in 1..Len(Params(requests[r].route)) :
        LET q == requests[r]
            p == Params(q.route)[i]
        IN  (Done(r) /\ Reached(r, i) /\ Absent(p, q.input)) =>
                IF p.default # Required
                THEN /\ Len(q.kwargs) >= i
                     /\ q.kwargs[i] = p.default
                     /\ Happened(q.trace, "call") => q.resp.kwargs[i] = p.default
                ELSE /\ q.resp.status = 422
                     /\ q.resp.kind = "validation_error"
                     /\ ~Happened(q.trace, "call")

\* an upload came without the optional file, whose default is None, and
\* the endpoint was called with None for it
C20_Witness ==
    \E r \in Slots :
        /\ Done(r)
        /\ requests[r].route = "upload"
        /\ "file" \notin DOMAIN requests[r].input.form
        /\ Happened(requests[r].trace, "call")
        /\ requests[r].resp.status = 200
        /\ requests[r].resp.kwargs[2] = NoneV

\* the places of the history of request r where ev happened
PlacesOf(r, ev) == { k \in 1..Len(requests[r].trace) : requests[r].trace[k].ev = ev }

\* the parameters of source src that the loop of request r came to
ReachedOf(r, src) ==
    { i \in 1..Len(Params(requests[r].route)) :
        Params(requests[r].route)[i].src \in src /\ Reached(r, i) }

\* C25: in one request the body is read at most once and the form is
\* parsed at most once, however many Body, Form and File parameters the
\* loop comes to.
C25_BodyAndFormReadOnce ==
    \A r \in Slots :
        /\ Cardinality(PlacesOf(r, "body")) <= 1
        /\ Cardinality(PlacesOf(r, "form")) <= 1

\* the loop of a request came to a Form and two File parameters, and the
\* form was parsed once, for the first of them
C25_Witness ==
    \E r \in Slots :
        /\ Done(r)
        /\ Cardinality(ReachedOf(r, {"form", "file"})) = 3
        /\ Cardinality(PlacesOf(r, "form")) = 1
        /\ \A k \in PlacesOf(r, "form") : requests[r].trace[k].i = 1

(***************************************************************************)
(* Properties of the shaping of the return value.                          *)
(***************************************************************************)
\* the endpoint of request r returned a response object it built
ReturnedResponse(r) ==
    /\ Done(r)
    /\ Happened(requests[r].trace, "call")
    /\ requests[r].fault = NoFault
    /\ IsResponse(requests[r].input.payload)

\* C21: when the endpoint returns a response object, the response of the
\* request is that object, with its status, headers and body, whether or
\* not the route has a response_model.
C21_ResponsePassedThrough ==
    \A r \in Slots :
        ReturnedResponse(r) => requests[r].resp = Built(requests[r].input.payload)

\* a route with a response_model returned a 201 response of its own, which
\* the model would reject
C21_Witness ==
    \E r \in Slots :
        /\ ReturnedResponse(r)
        /\ ResponseModel(requests[r].route) # "none"
        /\ Convert(requests[r].input.payload) # NoExc
        /\ requests[r].resp.status = 201
        /\ requests[r].resp.headers = <<"Location">>

(***************************************************************************)
(* Properties of the background tasks.                                     *)
(***************************************************************************)
\* the endpoint of request r returned after queueing tasks
QueuedAndReturned(r) ==
    /\ Done(r)
    /\ HasBackground(Params(requests[r].route))
    /\ requests[r].fault = NoFault
    /\ Happened(requests[r].trace, "call")
    /\ requests[r].input.tasks # <<>>

\* the places of the history of request r where task j was run
RunsOf(r, j) ==
    { k \in 1..Len(requests[r].trace) :
        requests[r].trace[k].ev = "task" /\ requests[r].trace[k].i = j }

\* the place of the history of request r where ev happened, 0 if it did not
PlaceOf(r, ev) ==
    IF Happened(requests[r].trace, ev)
    THEN CHOOSE k \in 1..Len(requests[r].trace) : requests[r].trace[k].ev = ev
    ELSE 0

C18_TasksAfterShaping ==
    \A r \in Slots : \A k \in 1..Len(requests[r].trace) :
        requests[r].trace[k].ev = "task" =>
            \E j \in 1..(k - 1) : requests[r].trace[j].ev = "shape"

\* requests r1 and r2 differ at most in which of their tasks raise
SameButTasks(r1, r2) ==
    /\ requests[r1].route = requests[r2].route
    /\ requests[r1].input.payload = requests[r2].input.payload
    /\ Len(requests[r1].input.tasks) = Len(requests[r2].input.tasks)

\* C19: a task that raises keeps no other task of the request from running,
\* and the response is the one the request gets when no task raises.
C19_TaskFailureIsolated ==
    \A r1, r2 \in Slots :
        (QueuedAndReturned(r1) /\ QueuedAndReturned(r2) /\ SameButTasks(r1, r2)) =>
            /\ \A j \in 1..Len(requests[r1].input.tasks) : RunsOf(r1, j) # {}
            /\ requests[r1].resp = requests[r2].resp

\* the first task of a request raised, its second task ran, and its
\* response is that of a request none of whose tasks raised
C19_Witness ==
    \E r1, r2 \in Slots :
        /\ QueuedAndReturned(r1) /\ QueuedAndReturned(r2) /\ SameButTasks(r1, r2)
        /\ requests[r1].input.tasks = <<"raise", "ok">>
        /\ requests[r2].input.tasks = <<"ok", "ok">>
        /\ requests[r1].trace[PlaceOf(r1, "call") + 2] = Ev("task", 2, 1)
        /\ requests[r1].resp.status = 200

(***************************************************************************)
(* Properties of wrongly declared routes.                                  *)
(***************************************************************************)
\* the route of request r is declared wrongly: its Body parameter is no
\* Struct, or its dependency is a class that is not injectable and cannot
\* be built without arguments
ConfigurationError(r) ==
    /\ Done(r)
    /\ \E i \in 1..Len(Params(requests[r].route)) :
          LET p == Params(requests[r].route)[i]
          IN  /\ Reached(r, i)
              /\ \/ p.src = "body" /\ ~IsStruct(p.ann.base)
                 \/ p.src = "type" /\ p.key \notin registry /\ ~ZeroArg(p.key)

\* C23: the error of a wrongly declared route is not caught by the wrapper:
\* the request gets no error response made from it.
C23_ConfigurationErrorNotAnswered ==
    \A r \in Slots : ConfigurationError(r) => requests[r].resp = NoResponse

(***************************************************************************)
(* Properties of the inclusion of a router.                                *)
(***************************************************************************)
\* the HTTP routes the router had when it was included
MountedRoutes == { k \in 1..Len(mounted.routes) : ~mounted.routes[k].is_websocket }

\* the paths a request may have
RequestPaths == LocalPaths \cup { sub_router.prefix \o path : path \in LocalPaths }

\* the route table has route ri of the router at the prefixed path, with
\* its method, its endpoint and its metadata
RegisteredOnParent(ri) ==
    \E k \in 1..Len(app_routes) :
        app_routes[k] = [ri EXCEPT !.path = sub_router.prefix \o ri.path]

\* a request for path with the method of ri is served by the endpoint of ri
ReachableAt(ri, path) ==
    /\ Match(app_routes, path, ri.method) # 0
    /\ app_routes[Match(app_routes, path, ri.method)].func = ri.func

\* C22 as stated: every HTTP route of an included router is in the table of
\* the application at prefix + local path with its method, endpoint and
\* metadata; it is served at no other path, and never at its local path.
C22_OnlyAtPrefixedPath ==
    mounted.done =>
        \A k \in MountedRoutes :
            /\ RegisteredOnParent(mounted.routes[k])
            /\ \A path \in RequestPaths :
                    ReachableAt(mounted.routes[k], path) =>
                        path = sub_router.prefix \o mounted.routes[k].path
            /\ ~ReachableAt(mounted.routes[k], mounted.routes[k].path)

\* C22 amended: every HTTP route of an included router is in the table of
\* the application at prefix + local path with its method, endpoint and
\* metadata; it is served at no other path, and when the normalized prefix
\* is not empty it is not served at its local path.
C22_OnlyAtPrefixedPathIfPrefixed ==
    mounted.done =>
        \A k \in MountedRoutes :
            /\ RegisteredOnParent(mounted.routes[k])
            /\ \A path \in RequestPaths :
                    ReachableAt(mounted.routes[k], path) =>
                        path = sub_router.prefix \o mounted.routes[k].path
            /\ sub_router.prefix # <<>> =>
                    ~ReachableAt(mounted.routes[k], mounted.routes[k].path)

\* a router made with the prefix "a/" was included: its route /u, with a
\* summary and the tags of the router, is served at /a/u and /u is not found
C22_Witness ==
    /\ mounted.done
    /\ sub_router.prefix = <<"/", "a">>
    /\ \E k \in MountedRoutes :
            /\ mounted.routes[k].path = <<"/", "u">>
            /\ mounted.routes[k].summary = "Get all users"
            /\ mounted.routes[k].tags = {"users"}
            /\ ReachableAt(mounted.routes[k], <<"/", "a", "/", "u">>)
            /\ Match(app_routes, <<"/", "u">>, mounted.routes[k].method) = 0

(***************************************************************************)
(* Properties of the branches of the loop.                                 *)
(***************************************************************************)
\* the parameter has none of the forms the loop knows
MatchesNone(param) ==
    /\ param.annotation \notin {"Request", "BackgroundTasks"}
    /\ param.default \notin {"Depends()", "Depends(f)"} \cup Descriptors
    /\ ~(param.default = "empty" /\ (param.annotation \in registry \/ param.in_path))

\* C24: a parameter takes the first branch that fits it, in the order
\* Request, BackgroundTasks, dependency, descriptor, implicit path
\* parameter, and an endpoint with a parameter that fits none of them is
\* refused when its route is registered.
C24_ClassifiedOrRefused ==
    classified.made =>
        LET param == classified.param
            raw   == param.annotation \in {"Request", "BackgroundTasks"}
            dep   == \/ param.default \in {"Depends()", "Depends(f)"}
                     \/ param.default = "empty" /\ param.annotation \in registry
        IN  /\ raw => classified.source = param.annotation
            /\ (~raw /\ dep) => classified.source = "Depends"
            /\ (~raw /\ ~dep /\ param.default \in Descriptors) =>
                    classified.source = param.default
            /\ (~raw /\ ~dep /\ param.default = "empty" /\ param.in_path) =>
                    classified.source = "implicit Path"
            /\ MatchesNone(param) => ~classified.registered

(***************************************************************************)
(* Properties of the choice of the ASGI engine.                            *)
(***************************************************************************)
\* C26: is_tachyon_engine() is true exactly when get_adapter() returns the
\* tachyon-engine adapter, and false exactly when it returns the Starlette
\* adapter.
C26_IsTachyonEngineTellsAdapter ==
    selection.made =>
        /\ selection.is_tachyon_engine
                <=> selection.adapter = "TachyonEngineApplicationAdapter"
        /\ ~selection.is_tachyon_engine
                <=> selection.adapter = "StarletteApplicationAdapter"

(***************************************************************************)
(* Properties of the requests that fail.                                   *)
(***************************************************************************)
\* the loop of request r ended before the call of the endpoint, or the
\* endpoint raised
FailedBeforeReturn(r) ==
    /\ Done(r)
    /\ HasBackground(Params(requests[r].route))
    /\ \/ ~Happened(requests[r].trace, "call")
       \/ requests[r].fault.stage = "endpoint"

\* C27: when the resolution of a parameter fails or the endpoint raises,
\* no task of the request is run.
C27_NoTaskAfterFailure ==
    \A r \in Slots : FailedBeforeReturn(r) => PlacesOf(r, "task") = {}

\* an endpoint that queued two tasks raised an HTTPException: the request
\* was answered 401 and no task had run
C27_Witness ==
    \E r \in Slots :
        /\ FailedBeforeReturn(r)
        /\ Happened(requests[r].trace, "call")
        /\ Len(requests[r].input.tasks) = 2
        /\ requests[r].resp.status = 401
        /\ PlacesOf(r, "task") = {}

\* what was raised while request r was served: by a dependency or the
\* endpoint, by the decoding of the body, by a task, by the encoding of
\* the return value
RaisedWhile(r) ==
    LET q == requests[r]
    IN  { g \in {"dependency", "endpoint"} : q.fault.stage = g /\ q.resp # NoResponse
                                                /\ ~Happened(q.trace, "shape") }
        \cup { "body" : x \in { i \in ReachedOf(r, {"body"}) :
                                  Decode(q.input.body).exc # NoExc } }
        \cup { "task" : k \in { j \in PlacesOf(r, "task") : q.trace[j].n = 0 } }
        \cup { "shaping" : x \in { y \in {q.input.payload} :
                   /\ y = "unencodable" /\ Happened(q.trace, "call")
                   /\ q.fault.stage # "endpoint" } }

\* C28: a request that was dispatched to the wrapper ends with a response,
\* whatever was raised while its parameters and dependencies were resolved,
\* its endpoint and its tasks were run and its return value was shaped.
C28_AlwaysAResponse ==
    \A r \in Slots :
        Done(r) => /\ requests[r].resp # NoResponse
                   /\ requests[r].resp.kind # "none"

\* a task of the request raised and then the encoding of the return value
\* raised: the request was answered with the generic 500
C28_Witness ==
    \E r \in Slots :
        /\ Done(r)
        /\ {"task", "shaping"} \subseteq RaisedWhile(r)
        /\ requests[r].resp = InternalServerError

(***************************************************************************)
(* Properties of the classes that are not injectable.                      *)
(***************************************************************************)
\* the resolutions of class c that request r made while c had no override
ResolutionsOf(r, c) ==
    { i \in 1..Len(requests[r].log) :
        requests[r].log[i].key = c /\ requests[r].log[i].ovr = NoOverride }

\* C29: a class that is not injectable and has no override is built by
\* every resolution of it and is never put in the instance cache: any two
\* resolutions of it, in one request or in two, return distinct instances.
C29_NotInjectableBuiltAnew ==
    \A c \in Classes \ registry :
        /\ c \notin DOMAIN instances_cache
        /\ \A r1, r2 \in Slots :
              \A i \in ResolutionsOf(r1, c), j \in ResolutionsOf(r2, c) :
                  /\ requests[r1].log[i].val.k = "inst"
                  /\ requests[r1].log[i].val.cls = c
                  /\ (r1 # r2 \/ i # j) =>
                        requests[r1].log[i].val # requests[r2].log[j].val

\* two requests have each resolved the plain class twice: four resolutions,
\* four constructions
C29_Witness ==
    \E r1, r2 \in Slots :
        /\ r1 # r2
        /\ Done(r1) /\ Done(r2)
        /\ Cardinality(ResolutionsOf(r1, "Plain")) = 2
        /\ Cardinality(ResolutionsOf(r2, "Plain")) = 2
        /\ requests[r1].kwargs[1] # requests[r1].kwargs[2]
        /\ built["Plain"] = 4

(***************************************************************************)
(* Properties of the resolution of a graph of injectable classes.          *)
(***************************************************************************)
RECURSIVE TypesFrom(_)
\* the classes reachable from class c through constructor parameters
TypesFrom(c) == {c} \cup UNION { TypesFrom(CtorParams(c)[i]) : i \in 1..Len(CtorParams(c)) }

\* C30: with no overrides, once a resolution of an injectable class has
\* returned, every injectable class reachable from it has been constructed
\* exactly once and is cached, also a class reachable along several paths,
\* and no later resolution constructs it again.
C30_EachReachableTypeBuiltOnce ==
    /\ \A c \in registry : built[c] <= 1
    /\ \A r \in Slots : \A e \in LogOf(r) :
          e.key \in registry =>
              \A c \in TypesFrom(e.key) :
                  /\ built[c] = 1
                  /\ InInstancesCache(instances_cache, c)
                  /\ instances_cache[c].cls = c

\* the class at the top of the diamond was resolved by two requests, after
\* a request had resolved the class at its bottom: three constructions
C30_Witness ==
    \E r1, r2 \in Slots :
        /\ r1 # r2
        /\ Done(r1) /\ Done(r2)
        /\ requests[r1].route = "get_facade" /\ requests[r2].route = "get_facade"
        /\ requests[r1].kwargs = requests[r2].kwargs
        /\ built = [c \in Classes |-> IF c \in registry THEN 1 ELSE 0]
        /\ instances_cache["Facade"].args[1].args[1] = instances_cache["Facade"].args[2]

====
